---- MODULE Spec2Model ----
(***************************************************************************)
(* Outfit generator (agents_service/app.py): the set-level outfit rules    *)
(* (duplicate detection, sanitizer), one generation lane                   *)
(* (generate_single_outfit_with_validation) and the orchestrator           *)
(* (generate_outfit) that runs three lanes concurrently.                   *)
(***************************************************************************)
EXTENDS Integers, Sequences, FiniteSets, TLC

VARIABLES
    pc,              \* position of generate_outfit
    req,             \* the GenerateOutfitRequest: closet, excludeCategories
    requirements,    \* OutfitRequirements returned by analyze_outfit_requirements
    closet_summary,  \* generate_outfit's shared pool (after filter and shuffle)
    lane,            \* lane index -> the frame of generate_single_outfit_with_validation
    valid_outfits,   \* generate_outfit's list of successful lanes' outfits
    response,        \* what generate_outfit returns or raises
    shopping,        \* the shopping agent's answer, once it has answered
    stub,            \* names the answers the external collaborators of this run may give
    fn               \* a pure function applied on its own: name, arguments, result

vars == <<pc, req, requirements, closet_summary, lane, valid_outfits, response, shopping, stub, fn>>

(***************************************************************************)
(* Bounds                                                                  *)
(***************************************************************************)
MaxLen == 3          \* longest itemIds list a generator answer carries
StubLen == 4         \* longest itemIds list the two-bottoms generator stub returns

(***************************************************************************)
(* Program constants                                                       *)
(***************************************************************************)
NumLanes == 3        \* for i in range(3)
DuplicateCap == 3    \* if attempt_num < 3
ValidationCap == 2   \* if not is_valid and attempt_num < 2
MinPool == 2         \* if len(filtered) < 2

NULL == "None"       \* Python's None in an Optional[str] field

(***************************************************************************)
(* Closet items.  Strings are the values the rules read: category,         *)
(* subcategory and name.                                                   *)
(***************************************************************************)
ItemA  == [id |-> "A",  name |-> "Navy Tee",       category |-> "top",       subcategory |-> "t-shirt"]
ItemB  == [id |-> "B",  name |-> "Khaki Chinos",   category |-> "bottom",    subcategory |-> "chinos"]
ItemC  == [id |-> "C",  name |-> "White Sneakers", category |-> "shoes",     subcategory |-> "sneakers"]
ItemB2 == [id |-> "B2", name |-> "Blue Jeans",     category |-> "Bottom",    subcategory |-> "jeans"]
ItemC2 == [id |-> "C2", name |-> "Brown Loafers",  category |-> "shoes",     subcategory |-> "loafers"]
ItemD  == [id |-> "D",  name |-> "Red Dress",      category |-> "dress",     subcategory |-> "sundress"]
ItemT  == [id |-> "T",  name |-> "Undershirt",     category |-> "top",       subcategory |-> "Tank Top"]
ItemK  == [id |-> "K",  name |-> "Grey Cardigan",  category |-> "top",       subcategory |-> "cardigan"]
ItemO  == [id |-> "O",  name |-> "Rain Coat",      category |-> "outerwear", subcategory |-> "jacket"]
ItemU  == [id |-> "U",  name |-> "Silk Scarf",     category |-> "accessory", subcategory |-> NULL]
ItemJ  == [id |-> "J",  name |-> "Denim Jacket",   category |-> "top",       subcategory |-> "shirt"]
ItemO2 == [id |-> "O2", name |-> "Trench Coat",    category |-> "outerwear", subcategory |-> "coat"]
ItemD2 == [id |-> "D2", name |-> "Black Gown",     category |-> "dress",     subcategory |-> "gown"]

UnknownId == "X"     \* an id the generator invented: in no closet

(***************************************************************************)
(* str.lower() and the substring test `kw in s` on the strings above       *)
(***************************************************************************)
Lower(s) ==
    CASE s = "Bottom"     -> "bottom"
      [] s = "Tank Top"   -> "tank top"
      [] s = "Undershirt" -> "undershirt"
      [] s = "Navy Tee"       -> "navy tee"
      [] s = "Khaki Chinos"   -> "khaki chinos"
      [] s = "White Sneakers" -> "white sneakers"
      [] s = "Blue Jeans"     -> "blue jeans"
      [] s = "Brown Loafers"  -> "brown loafers"
      [] s = "Red Dress"      -> "red dress"
      [] s = "Grey Cardigan"  -> "grey cardigan"
      [] s = "Rain Coat"      -> "rain coat"
      [] s = "Silk Scarf"     -> "silk scarf"
      [] s = "Denim Jacket"   -> "denim jacket"
      [] s = "Trench Coat"    -> "trench coat"
      [] s = "Black Gown"     -> "black gown"
      [] s = "Red"            -> "red"
      [] s = "Black"          -> "black"
      [] s = "Hat"            -> "hat"
      [] s = "Baseball Cap"   -> "baseball cap"
      [] s = "Red Hat"        -> "red hat"
      [] s = "Aviator Glasses" -> "aviator glasses"
      [] s = "Summer"         -> "summer"
      [] s = "All-Season"     -> "all-season"
      [] s = "Running Jacket" -> "running jacket"
      [] s = "Suit Shoes"     -> "suit shoes"
      [] s = "Plain Tee"      -> "plain tee"
      [] s = "Maxi"           -> "maxi"
      [] s = "Slacks"         -> "slacks"
      [] s = "Formal"         -> "formal"
      [] OTHER -> s

Contains(kw, s) ==
    <<kw, s>> \in { <<"tank", "tank top">>, <<"undershirt", "undershirt">>,
                    <<"cardigan", "cardigan">>, <<"cardigan", "grey cardigan">>,
                    <<"jacket", "jacket">>, <<"jacket", "denim jacket">>,
                    <<"dress", "red dress">>,
                    <<"running", "running jacket">>, <<"suit", "suit shoes">>,
                    <<"cap", "baseball cap">>, <<"hat", "red hat">>,
                    <<"glasses", "aviator glasses">>,
                    <<"dress", "sundress">> }

(***************************************************************************)
(* Sequence helpers                                                        *)
(***************************************************************************)
Range(s) == { s[k] : k \in 1..Len(s) }

Min(a, b) == IF a < b THEN a ELSE b

SeqsUpTo(S, n) == UNION { [1..k -> S] : k \in 0..n }

\* every ordering random.shuffle can leave a list in
ShuffleBy(s, p) == [k \in 1..Len(s) |-> s[p[k]]]
Shuffles(s) == { ShuffleBy(s, p) : p \in Permutations(1..Len(s)) }

RECURSIVE CountWhere(_, _)
CountWhere(s, c) ==
    IF s = <<>> THEN 0
    ELSE (IF Lower(Head(s).category) = c THEN 1 ELSE 0) + CountWhere(Tail(s), c)

ItemsOf(s, c) == SelectSeq(s, LAMBDA it : Lower(it.category) = c)

Names(s) == [k \in 1..Len(s) |-> s[k].name]

(***************************************************************************)
(* get_item_details: item_lookup is a dict, so the last closet entry of an *)
(* id wins; ids the lookup does not know are dropped.                      *)
(***************************************************************************)
HasId(cs, id) == \E k \in 1..Len(cs) : cs[k].id = id

Lookup(cs, id) ==
    cs[CHOOSE k \in 1..Len(cs) :
           /\ cs[k].id = id
           /\ \A j \in 1..Len(cs) : cs[j].id = id => j <= k]

RECURSIVE get_item_details(_, _)
get_item_details(item_ids, cs) ==
    IF item_ids = <<>> THEN <<>>
    ELSE IF HasId(cs, Head(item_ids))
         THEN <<Lookup(cs, Head(item_ids))>> \o get_item_details(Tail(item_ids), cs)
         ELSE get_item_details(Tail(item_ids), cs)

(***************************************************************************)
(* detect_duplicate_categories                                             *)
(***************************************************************************)
\* item.get('category', '').lower() on a None value raises AttributeError
DetectRaises(items) ==
    \E k \in 1..Len(items) : items[k].category = NULL \/ items[k].subcategory = NULL

has_base(tops) ==
    \E k \in 1..Len(tops) :
        \/ Contains("tank", Lower(tops[k].subcategory))
        \/ Contains("undershirt", Lower(tops[k].name))
        \/ Contains("base layer", Lower(tops[k].name))

has_outer(tops) ==
    \E k \in 1..Len(tops) :
        \/ Contains("cardigan", Lower(tops[k].subcategory))
        \/ Contains("blazer", Lower(tops[k].subcategory))
        \/ Contains("jacket", Lower(tops[k].subcategory))

ValidLayering(tops) == has_base(tops) /\ has_outer(tops)

\* the errors list, in the order the checks append to it
DuplicateErrors(items) ==
    (IF CountWhere(items, "bottom") > 1
       THEN << [rule |-> "Multiple bottoms selected", names |-> Names(ItemsOf(items, "bottom"))] >>
       ELSE <<>>)
    \o (IF CountWhere(items, "shoes") > 1
       THEN << [rule |-> "Multiple shoes selected", names |-> Names(ItemsOf(items, "shoes"))] >>
       ELSE <<>>)
    \o (IF CountWhere(items, "dress") > 1
       THEN << [rule |-> "Multiple dresses selected", names |-> Names(ItemsOf(items, "dress"))] >>
       ELSE <<>>)
    \o (IF CountWhere(items, "dress") > 0 /\ CountWhere(items, "bottom") > 0
       THEN << [rule |-> "Cannot wear dress with separate bottom", names |-> <<>>] >>
       ELSE <<>>)
    \o (IF CountWhere(items, "top") > 1 /\ ~ValidLayering(ItemsOf(items, "top"))
       THEN << [rule |-> "Multiple tops without valid layering", names |-> Names(ItemsOf(items, "top"))] >>
       ELSE <<>>)
    \o (IF CountWhere(items, "outerwear") > 1
       THEN << [rule |-> "Multiple outerwear items", names |-> Names(ItemsOf(items, "outerwear"))] >>
       ELSE <<>>)

\* (has_duplicates, error_message)
detect_duplicate_categories(items) ==
    [has_duplicates |-> DuplicateErrors(items) # <<>>,
     error_message  |-> DuplicateErrors(items)]

(***************************************************************************)
(* remove_duplicate_items: zip(item_ids, items) pairs the k-th id with the *)
(* k-th item and stops at the shorter list.                                *)
(***************************************************************************)
RECURSIVE SanitizeFrom(_, _, _, _, _)
SanitizeFrom(item_ids, items, k, seen_categories, seen_shoes) ==
    IF k > Min(Len(item_ids), Len(items)) THEN <<>>
    ELSE LET cat == Lower(items[k].category) IN
         IF cat = "shoes"
         THEN (IF ~seen_shoes THEN <<item_ids[k]>> ELSE <<>>)
              \o SanitizeFrom(item_ids, items, k + 1, seen_categories, TRUE)
         ELSE IF cat = "bottom" \/ cat = "dress"
         THEN (IF cat \notin seen_categories THEN <<item_ids[k]>> ELSE <<>>)
              \o SanitizeFrom(item_ids, items, k + 1, seen_categories \cup {cat}, seen_shoes)
         ELSE <<item_ids[k]>>
              \o SanitizeFrom(item_ids, items, k + 1, seen_categories, seen_shoes)

remove_duplicate_items(item_ids, items) == SanitizeFrom(item_ids, items, 1, {}, FALSE)

(***************************************************************************)
(* Answers of the external collaborators (Runner.run(...).final_output)    *)
(***************************************************************************)
GenRaise     == [kind |-> "raise",     itemIds |-> <<>>]   \* Runner.run raises
GenNoOutput  == [kind |-> "no_output", itemIds |-> <<>>]   \* final_output is empty
GenMalformed == [kind |-> "malformed", itemIds |-> <<>>]   \* json.loads / OutfitSuggestion(**) raises
GenOutfit(ids) == [kind |-> "outfit", itemIds |-> ids]

ValRaise     == [kind |-> "raise",     is_valid |-> "absent", combined_feedback |-> "absent"]
ValNoOutput  == [kind |-> "no_output", is_valid |-> "absent", combined_feedback |-> "absent"]
ValMalformed == [kind |-> "malformed", is_valid |-> "absent", combined_feedback |-> "absent"]
ValNonDict   == [kind |-> "non_dict",  is_valid |-> "absent", combined_feedback |-> "absent"]
ValDict(v, fb) == [kind |-> "dict", is_valid |-> v, combined_feedback |-> fb]
NotValidated == [kind |-> "not_called", is_valid |-> "absent", combined_feedback |-> "absent"]
NoResult     == [kind |-> "not_called", itemIds |-> <<>>]

\* a validator parse that fails closed: an answer that is no dict counts as
\* invalid
ParseValidation_FailClosed(out) ==
    IF out.kind = "dict"
    THEN [is_valid |-> (out.is_valid # "false"),
          combined_feedback |-> (IF out.combined_feedback = "absent" THEN ""
                                 ELSE out.combined_feedback)]
    ELSE [is_valid |-> FALSE, combined_feedback |-> ""]

\* the lines that parse the validator's answer: a parse error means valid,
\* validation.get("is_valid", True), validation.get("combined_feedback", "")
ParseValidation(out) ==
    IF out.kind = "dict"
    THEN [is_valid |-> (out.is_valid # "false"),
          combined_feedback |-> (IF out.combined_feedback = "absent" THEN ""
                                 ELSE out.combined_feedback)]
    ELSE [is_valid |-> TRUE, combined_feedback |-> ""]

(***************************************************************************)
(* Records of generate_outfit                                              *)
(***************************************************************************)
NoRequest      == [closet |-> <<>>, excludeCategories |-> <<>>]
NoRequirements == [kind |-> "none", essential_categories |-> <<>>,
                   avoid_categories |-> <<>>, min_items |-> 0, max_items |-> 0]
ReqRaise       == [NoRequirements EXCEPT !.kind = "raise"]
Requirements(essential, avoid, lo, hi) ==
    [kind |-> "requirements", essential_categories |-> essential,
     avoid_categories |-> avoid, min_items |-> lo, max_items |-> hi]

NoResponse == [status |-> 0, detail |-> "", outfits |-> <<>>, shopping_recommendations |-> <<>>]
HTTPException(status, detail) == [NoResponse EXCEPT !.status = status, !.detail = detail]
GenerateOutfitResponse(outfits, recs) ==
    [status |-> 200, detail |-> "", outfits |-> outfits, shopping_recommendations |-> recs]

ShopRaise     == [kind |-> "raise",     recommendations |-> <<>>]
ShopNoOutput  == [kind |-> "no_output", recommendations |-> <<>>]
ShopMalformed == [kind |-> "malformed", recommendations |-> <<>>]
ShopRecs(n)   == [kind |-> "recommendations", recommendations |-> [k \in 1..n |-> "rec"]]
ShopNotCalled == [kind |-> "not_called", recommendations |-> <<>>]

NoCall == [name |-> "none", pc |-> "none", item_ids |-> <<>>, items |-> <<>>, result |-> <<>>]

(***************************************************************************)
(* The answers the external collaborators may give, by stub                *)
(***************************************************************************)
StandardRequirements == Requirements(<< <<"top", "bottom">> >>, <<>>, 2, 3)
AvoidBottom          == Requirements(<< <<"top">> >>, <<"bottom">>, 2, 3)

ShoppingAnswers == {ShopRaise, ShopNoOutput, ShopMalformed, ShopRecs(1), ShopRecs(5)}

\* a generator that may fail, propose a clean outfit or a duplicate top, and a
\* validator that may stay silent, accept or reject
BusyStub ==
    [requirements |-> {ReqRaise, StandardRequirements},
     generator    |-> {GenNoOutput, GenOutfit(<<"A", "B">>), GenOutfit(<<"A", "A">>)},
     validator    |-> {ValNoOutput, ValDict("true", "Looks good"), ValDict("false", "Colors clash")},
     shopping     |-> ShoppingAnswers]

\* a generator that fails, proposes one outfit or only an id it invented, a
\* validator that stays silent
QuietStub ==
    [requirements |-> {StandardRequirements, AvoidBottom},
     generator    |-> {GenMalformed, GenOutfit(<<"A", "C">>), GenOutfit(<<UnknownId>>)},
     validator    |-> {ValNoOutput},
     shopping     |-> ShoppingAnswers]

Ids(cs) == { cs[k].id : k \in 1..Len(cs) }

\* every answer of the generator: failures, and every list of up to MaxLen
\* ids drawn from the closet it was shown and one id it invented
GeneratorAnswers(cs) ==
    {GenRaise, GenNoOutput, GenMalformed}
    \cup { GenOutfit(ids) : ids \in SeqsUpTo(Ids(cs) \cup {UnknownId}, MaxLen) }

ValidatorAnswers ==
    {ValRaise, ValNoOutput, ValMalformed, ValNonDict,
     ValDict("true", "Looks good"), ValDict("absent", "absent"),
     ValDict("false", "Colors clash"), ValDict("false", "absent")}

TwoBottomsCloset == <<ItemB, ItemB2, ItemA>>

TwoBottomsAnswers ==
    { GenOutfit(ids) : ids \in
        { s \in SeqsUpTo(Ids(TwoBottomsCloset) \cup {UnknownId}, StubLen) :
            CountWhere(get_item_details(s, TwoBottomsCloset), "bottom") >= 2 } }

\* one answer of the generator of each kind the lane tells apart: the three
\* failures, no id, ids that resolve to distinct slots, a repeated id, and an
\* id absent from the pool alone and among others
CountedAnswers ==
    {GenRaise, GenNoOutput, GenMalformed}
    \cup { GenOutfit(ids) : ids \in
             { <<>>, <<"A", "B">>, <<"A", "B", "C">>, <<"B", "B">>, <<"A", "B", "B">>,
               <<"C", "C", "A">>, <<UnknownId>>, <<"A", UnknownId, "B">> } }

ClosetABC == <<ItemA, ItemB, ItemC>>
ClosetDBU == <<ItemD, ItemB, ItemU>>

NoStub == [requirements |-> {}, generator |-> {}, validator |-> {}, shopping |-> {}]

Collaborators ==
    [busy        |-> BusyStub,
     quiet       |-> QuietStub,
     any_ABC     |-> [NoStub EXCEPT !.generator = GeneratorAnswers(ClosetABC),
                                    !.validator = ValidatorAnswers],
     any_DBU     |-> [NoStub EXCEPT !.generator = GeneratorAnswers(ClosetDBU),
                                    !.validator = ValidatorAnswers],
     two_bottoms |-> [NoStub EXCEPT !.generator = TwoBottomsAnswers,
                                    !.validator = ValidatorAnswers],
     counted     |-> [NoStub EXCEPT !.generator = CountedAnswers,
                                    !.validator = ValidatorAnswers],
     none        |-> NoStub]

(***************************************************************************)
(* previous_feedback of a lane's next attempt                              *)
(***************************************************************************)
NoFeedback == [kind |-> "none", error |-> <<>>, text |-> ""]
CriticalFeedback(duplicate_error) ==
    [kind |-> "critical", error |-> duplicate_error,
     text |-> "CRITICAL ERROR: {duplicate_error}. You MUST fix this by selecting different items."]
ValidatorFeedback(combined_feedback) ==
    [kind |-> "validator", error |-> <<>>, text |-> combined_feedback]

\* the duplicate retry guarded by the validation cap
DuplicateRetryAllowed_ValidationCap(attempt_num) == attempt_num < ValidationCap

\* if attempt_num < 3
DuplicateRetryAllowed(attempt_num) == attempt_num < DuplicateCap

\* the validation retry guarded by the duplicate cap
ValidationRetryAllowed_DuplicateCap(attempt_num) == attempt_num < DuplicateCap

\* the validation retry with no cap at all
ValidationRetryAllowed_Uncapped(attempt_num) == attempt_num >= 1

\* if not is_valid and attempt_num < 2
ValidationRetryAllowed(attempt_num) == attempt_num < ValidationCap

(***************************************************************************)
(* One lane: the frame of generate_single_outfit_with_validation.  result  *)
(* and outfit are the locals of the running attempt; has_duplicates,       *)
(* duplicate_error and validation_result are those locals as last assigned *)
(* on the lane's call stack (the caller's, until the attempt assigns them).*)
(***************************************************************************)
IdleLane ==
    [pc |-> "idle", attempt_num |-> 0, previous_feedback |-> NoFeedback,
     closet_summary |-> <<>>, result |-> NoResult, outfit |-> <<>>,
     has_duplicates |-> FALSE, duplicate_error |-> <<>>,
     validation_result |-> NotValidated, error |-> ""]

\* entry of the function up to `await Runner.run(stylist_agent, prompt)`:
\* random.shuffle(closet_summary), then the prompt
EnterAttempt(f, cs, attempt_num, previous_feedback) ==
    { [f EXCEPT !.pc = "generator", !.attempt_num = attempt_num,
                !.previous_feedback = previous_feedback,
                !.closet_summary = view,
                !.result = NoResult, !.outfit = <<>>] : view \in Shuffles(cs) }

\* an exception that the lane answers, while attempts remain, by calling the
\* generator again
Raised_Retried(f, out, detail) ==
    IF f.attempt_num < DuplicateCap
    THEN [f EXCEPT !.pc = "generator", !.attempt_num = f.attempt_num + 1, !.result = out]
    ELSE [IdleLane EXCEPT !.pc = "raised", !.attempt_num = f.attempt_num,
                          !.result = out, !.error = detail]

\* an exception leaves the lane: its frames are gone; attempt_num and result
\* stay on record as the attempt that raised and the answer it had got
Raised(f, out, detail) ==
    [IdleLane EXCEPT !.pc = "raised", !.attempt_num = f.attempt_num,
                     !.result = out, !.error = detail]

\* `return outfit`
Returned(f) == [f EXCEPT !.pc = "returned", !.closet_summary = <<>>]

\* from the generator's answer to the next await, return or raise
AfterGenerator(f, out) ==
    IF out.kind = "raise" THEN { Raised(f, out, "Runner.run raised") }
    ELSE IF out.kind = "no_output" THEN { Raised(f, out, "No output from stylist") }
    ELSE IF out.kind = "malformed" THEN { Raised(f, out, "Failed to parse outfit") }
    ELSE
    LET selected_items == get_item_details(out.itemIds, f.closet_summary)
        \* previous_feedback has gone into the prompt; nothing reads it again
        g == [f EXCEPT !.result = out, !.outfit = out.itemIds,
                       !.previous_feedback = NoFeedback,
                       !.has_duplicates = FALSE, !.duplicate_error = <<>>,
                       !.validation_result = NotValidated]
    IN  IF selected_items = <<>> THEN { Raised(f, out, "No valid items selected") }
        ELSE IF DetectRaises(selected_items) THEN { Raised(f, out, "AttributeError") }
        ELSE
        LET d == detect_duplicate_categories(selected_items)
            h == [g EXCEPT !.has_duplicates = d.has_duplicates,
                           !.duplicate_error = d.error_message]
        IN  IF d.has_duplicates
            THEN IF DuplicateRetryAllowed(f.attempt_num)
                 THEN EnterAttempt(h, f.closet_summary, f.attempt_num + 1,
                                   CriticalFeedback(d.error_message))
                 ELSE { [h EXCEPT !.pc = "validator",
                                  !.outfit = remove_duplicate_items(out.itemIds, selected_items)] }
            ELSE { [h EXCEPT !.pc = "validator"] }

\* from the validator's answer to the next await, return or raise
AfterValidator(f, out) ==
    IF out.kind = "raise" THEN { Raised(f, f.result, "Runner.run raised") }
    ELSE IF out.kind = "no_output"
    THEN { Returned([f EXCEPT !.validation_result = out]) }
    ELSE
    LET v == ParseValidation(out)
        g == [f EXCEPT !.validation_result = out]
    IN  IF ~v.is_valid /\ ValidationRetryAllowed(f.attempt_num)
        THEN EnterAttempt(g, f.closet_summary, f.attempt_num + 1,
                          ValidatorFeedback(v.combined_feedback))
        ELSE { Returned(g) }

GeneratorReturns(i) ==
    /\ lane[i].pc = "generator"
    /\ \E out \in Collaborators[stub].generator :
         \E f \in AfterGenerator(lane[i], out) :
            lane' = [lane EXCEPT ![i] = f]
    /\ UNCHANGED <<pc, req, requirements, closet_summary, valid_outfits, response, shopping, stub, fn>>

ValidatorReturns(i) ==
    /\ lane[i].pc = "validator"
    /\ \E out \in Collaborators[stub].validator :
         \E f \in AfterValidator(lane[i], out) :
            lane' = [lane EXCEPT ![i] = f]
    /\ UNCHANGED <<pc, req, requirements, closet_summary, valid_outfits, response, shopping, stub, fn>>

(***************************************************************************)
(* generate_outfit                                                         *)
(***************************************************************************)
Lanes == 0..(NumLanes - 1)

\* a filter that drops excludeCategories only
Filtered_ExcludeOnly(closet, excludeCategories, avoid_categories) ==
    SelectSeq(closet, LAMBDA c : c.category \notin Range(excludeCategories))

\* Step 2: drop excludeCategories, then avoid_categories (exact string match)
Filtered(closet, excludeCategories, avoid_categories) ==
    LET kept == SelectSeq(closet, LAMBDA c : c.category \notin Range(excludeCategories))
    IN  IF avoid_categories # <<>>
        THEN SelectSeq(kept, LAMBDA c : c.category \notin Range(avoid_categories))
        ELSE kept

\* a rotation by the lane index whatever the size of the pool
Rotation_ByIndex(n, outfit_index) == outfit_index

\* generate_single_outfit_async: closet_summary[rotation:] + closet_summary[:rotation]
Rotation(n, outfit_index) ==
    IF n >= 3 THEN (n \div 3) * outfit_index ELSE outfit_index

Rotated(cs, outfit_index) ==
    LET r == Min(Rotation(Len(cs), outfit_index), Len(cs))
    IN  SubSeq(cs, r + 1, Len(cs)) \o SubSeq(cs, 1, r)

\* the OutfitSuggestion a lane returned; `lane` tells the objects apart
Suggestion(i) == [lane |-> i, itemIds |-> lane[i].outfit]

LaneOver(i) == lane[i].pc \in {"returned", "raised"}

\* asyncio.gather(..., return_exceptions=True), then the isinstance filter
RECURSIVE CollectFrom(_)
CollectFrom(i) ==
    IF i >= NumLanes THEN <<>>
    ELSE (IF lane[i].pc = "returned" THEN <<Suggestion(i)>> ELSE <<>>) \o CollectFrom(i + 1)

\* the proposals with the last lane first
Collected_LastFirst ==
    LET c == CollectFrom(0) IN [k \in 1..Len(c) |-> c[Len(c) + 1 - k]]

Collected == CollectFrom(0)

\* what generate_outfit keeps of the shopping pass: [] on any failure,
\* else recommendations[:4]
ShoppingRecs(out) ==
    IF out.kind = "recommendations"
    THEN SubSeq(out.recommendations, 1, Min(4, Len(out.recommendations)))
    ELSE <<>>

\* generate_outfit up to asyncio.gather: requirements, filter, shuffle, the
\* three lanes' rotation and entry
RequirementsReturn ==
    /\ pc = "requirements"
    /\ \E out \in Collaborators[stub].requirements :
         IF out.kind = "raise"
         THEN /\ pc' = "raised"
              /\ response' = HTTPException(500, "Requirements analysis failed")
              /\ UNCHANGED <<requirements, closet_summary, lane>>
         ELSE LET filtered == Filtered(req.closet, req.excludeCategories, out.avoid_categories)
              IN  /\ requirements' = out
                  /\ IF Len(filtered) < MinPool
                     THEN /\ pc' = "raised"
                          /\ response' = HTTPException(400, "Not enough suitable items for this occasion")
                          /\ UNCHANGED <<closet_summary, lane>>
                     ELSE /\ pc' = "gather"
                          /\ \E shared \in Shuffles(filtered) :
                               /\ closet_summary' = shared
                               /\ \E p \in [Lanes -> Permutations(1..Len(shared))] :
                                    lane' = [i \in Lanes |->
                                               [IdleLane EXCEPT
                                                  !.pc = "generator",
                                                  !.attempt_num = 1,
                                                  !.closet_summary = ShuffleBy(Rotated(shared, i), p[i])]]
                          /\ UNCHANGED response
    /\ UNCHANGED <<req, valid_outfits, shopping, stub, fn>>

\* a gather that the first exception of a lane ends
GatherOver_FirstException ==
    \/ \A i \in Lanes : LaneOver(i)
    \/ \E i \in Lanes : lane[i].pc = "raised"

\* await asyncio.gather(*outfit_tasks, return_exceptions=True) returns once
\* every lane has returned or raised
GatherOver == \A i \in Lanes : LaneOver(i)

\* gather is over: filter the exceptions out, fail if nothing is left
GatherReturns ==
    /\ pc = "gather"
    /\ GatherOver
    /\ valid_outfits' = Collected
    /\ IF Collected = <<>>
       THEN /\ pc' = "raised"
            /\ response' = HTTPException(500, "Parallel generation failed: Failed to generate any valid outfits")
       ELSE /\ pc' = "shopping"
            /\ UNCHANGED response
    /\ UNCHANGED <<req, requirements, closet_summary, lane, shopping, stub, fn>>

\* a shopping pass whose exception leaves generate_outfit
ShoppingReturns_Propagates ==
    /\ pc = "shopping"
    /\ \E out \in Collaborators[stub].shopping :
         /\ shopping' = out
         /\ IF out.kind = "raise"
            THEN /\ pc' = "raised"
                 /\ response' = HTTPException(500, "Shopping recommendations failed")
            ELSE /\ pc' = "done"
                 /\ response' = GenerateOutfitResponse(valid_outfits, ShoppingRecs(out))
    /\ UNCHANGED <<req, requirements, closet_summary, lane, valid_outfits, stub, fn>>

\* Step 4: the shopping pass answers (or raises), generate_outfit returns
ShoppingReturns ==
    /\ pc = "shopping"
    /\ \E out \in Collaborators[stub].shopping :
         /\ shopping' = out
         /\ response' = GenerateOutfitResponse(valid_outfits, ShoppingRecs(out))
    /\ pc' = "done"
    /\ UNCHANGED <<req, requirements, closet_summary, lane, valid_outfits, stub, fn>>

LaneStep == \E i \in DOMAIN lane : GeneratorReturns(i) \/ ValidatorReturns(i)

(***************************************************************************)
(* Specification of generate_outfit: a request and the answers its         *)
(* collaborators may give                                                  *)
(***************************************************************************)
Scenarios ==
    { [req |-> [closet |-> <<>>, excludeCategories |-> <<>>], stub |-> "busy"],
      [req |-> [closet |-> <<ItemA>>, excludeCategories |-> <<>>], stub |-> "busy"],
      [req |-> [closet |-> <<ItemA, ItemB>>, excludeCategories |-> <<>>], stub |-> "busy"],
      [req |-> [closet |-> <<ItemA, ItemB, ItemC>>, excludeCategories |-> <<"shoes">>], stub |-> "quiet"],
      [req |-> [closet |-> <<ItemA, ItemB, ItemC>>, excludeCategories |-> <<>>], stub |-> "quiet"] }

Init ==
    /\ \E sc \in Scenarios : req = sc.req /\ stub = sc.stub
    /\ pc = "requirements"
    /\ requirements = NoRequirements
    /\ closet_summary = <<>>
    /\ lane = [i \in Lanes |-> IdleLane]
    /\ valid_outfits = <<>>
    /\ response = NoResponse
    /\ shopping = ShopNotCalled
    /\ fn = NoCall

Next ==
    \/ RequirementsReturn
    \/ LaneStep
    \/ GatherReturns
    \/ ShoppingReturns

Spec == Init /\ [][Next]_vars

(***************************************************************************)
(* Specification of one lane called on its own with attempt_num = 1        *)
(***************************************************************************)
LaneScenarios == { [closet |-> ClosetABC, stub |-> "any_ABC"],
                   [closet |-> ClosetDBU, stub |-> "any_DBU"] }

InitLane ==
    /\ \E sc \in LaneScenarios :
         /\ closet_summary = sc.closet     \* the closet the lane is called with
         /\ lane \in [{0} -> EnterAttempt(IdleLane, sc.closet, 1, NoFeedback)]
         /\ stub = sc.stub
    /\ pc = "none"
    /\ req = NoRequest
    /\ requirements = StandardRequirements
    /\ valid_outfits = <<>>
    /\ response = NoResponse
    /\ shopping = ShopNotCalled
    /\ fn = NoCall

NextLane == GeneratorReturns(0) \/ ValidatorReturns(0)

SpecLane == InitLane /\ [][NextLane]_vars

(***************************************************************************)
(* Specification of one lane whose generator stub returns, on every        *)
(* attempt, a proposal with two items of category bottom                   *)
(***************************************************************************)
InitTwoBottoms ==
    /\ lane \in [{0} -> EnterAttempt(IdleLane, TwoBottomsCloset, 1, NoFeedback)]
    /\ stub = "two_bottoms"
    /\ pc = "none"
    /\ req = NoRequest
    /\ requirements = StandardRequirements
    /\ closet_summary = TwoBottomsCloset
    /\ valid_outfits = <<>>
    /\ response = NoResponse
    /\ shopping = ShopNotCalled
    /\ fn = NoCall

SpecTwoBottoms == InitTwoBottoms /\ [][NextLane]_vars

(***************************************************************************)
(* Specification of the sanitizer applied on its own to a proposal's ids   *)
(* and the items they resolve to                                           *)
(***************************************************************************)
SanitizerItems == {ItemA, ItemB, ItemB2, ItemC, ItemC2, ItemD, ItemK}

InitSanitizer ==
    /\ \E items \in SeqsUpTo(SanitizerItems, MaxLen) :
         fn = [name |-> "remove_duplicate_items", pc |-> "called",
               item_ids |-> [k \in 1..Len(items) |-> items[k].id],
               items |-> items, result |-> <<>>]
    /\ pc = "none"
    /\ req = NoRequest
    /\ requirements = NoRequirements
    /\ closet_summary = <<>>
    /\ lane = [i \in Lanes |-> IdleLane]
    /\ valid_outfits = <<>>
    /\ response = NoResponse
    /\ shopping = ShopNotCalled
    /\ stub = "none"

SanitizerReturns ==
    /\ fn.name = "remove_duplicate_items"
    /\ fn.pc = "called"
    /\ fn' = [fn EXCEPT !.pc = "returned",
                        !.result = remove_duplicate_items(fn.item_ids, fn.items)]
    /\ UNCHANGED <<pc, req, requirements, closet_summary, lane, valid_outfits,
                   response, shopping, stub>>

NextSanitizer == SanitizerReturns

SpecSanitizer == InitSanitizer /\ [][NextSanitizer]_vars

(***************************************************************************)
(* Claims about one lane                                                   *)
(***************************************************************************)
Resolved(i) == get_item_details(lane[i].outfit, closet_summary)

Sanitized(i) == lane[i].has_duplicates /\ lane[i].attempt_num = DuplicateCap

\* C1: in a lane whose generator returns two bottoms on every attempt, the
\* proposal returned after the third attempt was sanitized holds at most one
\* item id that resolves to category bottom.
C1_AtMostOneBottom ==
    \A i \in DOMAIN lane :
        (lane[i].pc = "returned" /\ Sanitized(i))
            => CountWhere(Resolved(i), "bottom") <= 1

\* C2: when detection flags the proposal of attempt n, then for n < 3 the lane
\* calls the generator again as attempt n+1 with the feedback built from the
\* very message detection produced, and for n = 3 it makes no further
\* generator call, rewrites itemIds with the sanitizer and goes on to the
\* validator whatever the sanitizer left.
C2_Flagged(i) ==
    /\ lane[i].pc = "generator"
    /\ lane'[i] # lane[i]
    /\ lane'[i].has_duplicates

C2_DuplicateRetry ==
    [][\A i \in DOMAIN lane :
        C2_Flagged(i) =>
            IF lane[i].attempt_num < 3
            THEN /\ lane'[i].pc = "generator"
                 /\ lane'[i].attempt_num = lane[i].attempt_num + 1
                 /\ lane'[i].duplicate_error # <<>>
                 /\ lane'[i].previous_feedback.kind = "critical"
                 /\ lane'[i].previous_feedback.error = lane'[i].duplicate_error
            ELSE /\ lane'[i].pc = "validator"
                 /\ lane'[i].attempt_num = 3
                 /\ lane'[i].outfit =
                       remove_duplicate_items(
                           lane'[i].result.itemIds,
                           get_item_details(lane'[i].result.itemIds, lane[i].closet_summary))
    ]_vars

\* C2 witness: a lane at the validator after its third proposal was flagged,
\* holding an itemIds list the sanitizer has shortened.
C2_Witness ==
    \E i \in DOMAIN lane :
        /\ lane[i].pc = "validator"
        /\ Sanitized(i)
        /\ Len(lane[i].outfit) < Len(lane[i].result.itemIds)

\* C3: when the validator reports the proposal of attempt n invalid, the lane
\* re-enters proposing as attempt n+1 with the validator's feedback if n < 2
\* and returns the current proposal otherwise; when the validator reports
\* valid, the lane returns that proposal without another generator call.
ReportsInvalid(v) == v.kind = "dict" /\ v.is_valid = "false"
ReportsValid(v)   == v.kind = "dict" /\ v.is_valid = "true"

C3_Answered(i) ==
    /\ lane[i].pc = "validator"
    /\ lane'[i] # lane[i]

C3_ValidatorRetry ==
    [][\A i \in DOMAIN lane :
        C3_Answered(i) =>
            LET v == lane'[i].validation_result IN
            /\ (ReportsInvalid(v) /\ lane[i].attempt_num < 2) =>
                  /\ lane'[i].pc = "generator"
                  /\ lane'[i].attempt_num = lane[i].attempt_num + 1
                  /\ lane'[i].previous_feedback.kind = "validator"
                  /\ lane'[i].previous_feedback.text =
                        (IF v.combined_feedback = "absent" THEN "" ELSE v.combined_feedback)
            /\ (ReportsInvalid(v) /\ lane[i].attempt_num >= 2) =>
                  /\ lane'[i].pc = "returned"
                  /\ lane'[i].outfit = lane[i].outfit
                  /\ lane'[i].attempt_num = lane[i].attempt_num
            /\ ReportsValid(v) =>
                  /\ lane'[i].pc = "returned"
                  /\ lane'[i].outfit = lane[i].outfit
                  /\ lane'[i].attempt_num = lane[i].attempt_num
    ]_vars

\* C3 witness: a lane that returned its second proposal although the validator
\* reported it invalid.
C3_Witness ==
    \E i \in DOMAIN lane :
        /\ lane[i].pc = "returned"
        /\ lane[i].attempt_num = 2
        /\ ReportsInvalid(lane[i].validation_result)
        /\ lane[i].outfit # <<>>

\* C6: when the validator gives no output, or output that does not parse into
\* {is_valid, feedback}, the lane takes the proposal as valid: it returns the
\* current proposal, makes no retry and does not fail.
Unusable(v) ==
    \/ v.kind \in {"no_output", "malformed", "non_dict"}
    \/ (v.kind = "dict" /\ v.is_valid = "absent")

C6_FailOpen ==
    [][\A i \in DOMAIN lane :
        (C3_Answered(i) /\ Unusable(lane'[i].validation_result)) =>
            /\ lane'[i].pc = "returned"
            /\ lane'[i].outfit = lane[i].outfit
            /\ lane'[i].attempt_num = lane[i].attempt_num
    ]_vars

\* C6 witness: a lane that returned its first proposal on a validator answer
\* that was not JSON.
C6_Witness ==
    \E i \in DOMAIN lane :
        /\ lane[i].pc = "returned"
        /\ lane[i].attempt_num = 1
        /\ lane[i].validation_result.kind = "malformed"
        /\ lane[i].outfit # <<>>

\* C10: with the wardrobe [top A, bottom B, shoes C], a lane whose generator
\* keeps proposing [A, A] has each such proposal flagged, and the proposal it
\* returns after the third attempt has been sanitized to one occurrence of A.
C10_SingleTop ==
    \A i \in DOMAIN lane :
        (/\ closet_summary = ClosetABC
         /\ lane[i].pc = "returned"
         /\ lane[i].attempt_num = DuplicateCap
         /\ lane[i].result = GenOutfit(<<"A", "A">>))
            => (lane[i].has_duplicates /\ lane[i].outfit = <<"A">>)

(***************************************************************************)
(* Claims about generate_outfit                                            *)
(***************************************************************************)
LanesStarted == \E i \in Lanes : lane[i].pc # "idle"

ReturnedLanes == { i \in Lanes : lane[i].pc = "returned" }

\* outfits holds one proposal per lane that returned, in lane order, each with
\* the itemIds that lane returned
ExactlyReturned(outfits) ==
    /\ Len(outfits) = Cardinality(ReturnedLanes)
    /\ \A k \in 1..Len(outfits) :
          /\ outfits[k].lane \in ReturnedLanes
          /\ outfits[k].itemIds = lane[outfits[k].lane].outfit
          /\ \A j \in 1..Len(outfits) : j < k => outfits[j].lane < outfits[k].lane

\* C4: generate_outfit runs 3 lanes; a lane's exception never keeps the other
\* lanes from running to their end; the operation succeeds iff at least one
\* lane returned a proposal: it fails only when all three lanes failed, and
\* with 1 or 2 returned lanes it returns exactly their proposals, no error.
C4_PartialSuccess ==
    /\ LanesStarted => \A i \in Lanes : lane[i].pc # "idle"
    /\ (LanesStarted /\ pc # "gather") => \A i \in Lanes : LaneOver(i)
    /\ (LanesStarted /\ pc = "raised") =>
          /\ ReturnedLanes = {}
          /\ response.status = 500
    /\ pc = "shopping" => (ReturnedLanes # {} /\ ExactlyReturned(valid_outfits))
    /\ pc = "done" =>
          /\ ReturnedLanes # {}
          /\ response.status = 200
          /\ ExactlyReturned(response.outfits)

\* C4 witness: generate_outfit has answered 200 with the proposals of two
\* lanes, the third lane having raised.
C4_Witness ==
    /\ pc = "done"
    /\ response.status = 200
    /\ Len(response.outfits) = 2
    /\ \E i \in Lanes : lane[i].pc = "raised"

\* the generator's answer is empty, unparsable, or a proposal none of whose
\* ids resolves to an item of the pool
GenerationFailure(out) ==
    \/ out.kind \in {"no_output", "malformed"}
    \/ (out.kind = "outfit" /\ get_item_details(out.itemIds, closet_summary) = <<>>)

\* C5 as stated: a generation failure is retried while the lane has retry
\* budget left, so a lane is failed by one only once the budget is exhausted.
C5_RetriedWithinBudget ==
    \A i \in Lanes :
        (lane[i].pc = "raised" /\ GenerationFailure(lane[i].result))
            => lane[i].attempt_num >= ValidationCap

\* C5 amended: a generation failure at any attempt fails the lane at once, at
\* that attempt and without another generator call, whatever budget is left;
\* a failed lane is not fatal: generate_outfit answers 200 whenever another
\* lane returned.
C5_FailsAtOnce ==
    /\ [][\A i \in Lanes :
            (/\ lane[i].pc = "generator"
             /\ lane'[i] # lane[i]
             /\ GenerationFailure(lane'[i].result))
                => /\ lane'[i].pc = "raised"
                   /\ lane'[i].attempt_num = lane[i].attempt_num
        ]_vars
    /\ [](\A i \in Lanes :
            (/\ lane[i].pc = "raised"
             /\ GenerationFailure(lane[i].result)
             /\ ReturnedLanes # {}
             /\ pc \in {"raised", "done"})
                => response.status = 200)

\* C5 witness: generate_outfit has answered 200 although a lane failed on a
\* generation failure at its first attempt.
C5_Witness ==
    /\ pc = "done"
    /\ response.status = 200
    /\ \E i \in Lanes :
          /\ lane[i].pc = "raised"
          /\ lane[i].attempt_num = 1
          /\ GenerationFailure(lane[i].result)

\* the closet items in neither excludeCategories nor avoid_categories
Remaining ==
    Cardinality({ k \in 1..Len(req.closet) :
                    /\ req.closet[k].category \notin Range(req.excludeCategories)
                    /\ req.closet[k].category \notin Range(requirements.avoid_categories) })

\* C7: with fewer than 2 closet items left after excludeCategories and
\* avoid_categories are removed, generate_outfit fails with the
\* insufficient-input error before any lane starts: no lane ever exists and
\* no generator or validator call is made; with 2 or more left, all 3 lanes
\* are started.
C7_InsufficientPool ==
    /\ requirements.kind # "requirements" => ~LanesStarted
    /\ requirements.kind = "requirements" =>
          IF Remaining < 2
          THEN /\ pc = "raised"
               /\ response.status = 400
               /\ \A i \in Lanes : lane[i] = IdleLane
          ELSE /\ response.status # 400
               /\ \A i \in Lanes : lane[i].pc # "idle" /\ lane[i].attempt_num >= 1

\* C7 witness: a closet of three items of which avoid_categories and
\* excludeCategories leave one, answered 400 with no lane started.
C7_Witness ==
    /\ Len(req.closet) = 3
    /\ requirements.kind = "requirements"
    /\ requirements.avoid_categories # <<>>
    /\ Remaining = 1
    /\ response.status = 400
    /\ ~LanesStarted

ShoppingFailed == shopping.kind \in {"raise", "no_output", "malformed"}

\* C8: the shopping pass starts only after every lane is over and only with
\* the accepted outfits; if it raises or yields nothing, generate_outfit
\* still returns every accepted outfit with an empty recommendation list.
C8_ShoppingBestEffort ==
    /\ (pc = "shopping" \/ shopping.kind # "not_called") =>
          /\ \A i \in Lanes : LaneOver(i)
          /\ ExactlyReturned(valid_outfits)
    /\ ShoppingFailed =>
          /\ pc = "done"
          /\ response.status = 200
          /\ response.outfits # <<>>
          /\ ExactlyReturned(response.outfits)
          /\ response.shopping_recommendations = <<>>

\* C8 witness: the shopping pass raised and generate_outfit answered 200 with
\* the accepted outfits and no recommendation.
C8_Witness ==
    /\ pc = "done"
    /\ shopping.kind = "raise"
    /\ response.status = 200
    /\ response.outfits # <<>>
    /\ response.shopping_recommendations = <<>>

(***************************************************************************)
(* Claims about the sanitizer                                              *)
(***************************************************************************)
\* the items the sanitizer kept: ids and items are aligned and every item of
\* SanitizerItems has its own id
KeptItems ==
    [k \in 1..Len(fn.result) |->
        CHOOSE it \in SanitizerItems : it.id = fn.result[k]]

\* C9: the sanitizer keeps only the first shoes item and only the first item
\* of the one bottom-or-dress slot, and every item of every other category:
\* its output holds at most one shoes item and at most one item that is a
\* bottom or a dress.
C9_SingletonSlots ==
    (fn.name = "remove_duplicate_items" /\ fn.pc = "returned") =>
        /\ CountWhere(KeptItems, "shoes") <= 1
        /\ CountWhere(KeptItems, "bottom") + CountWhere(KeptItems, "dress") <= 1
        /\ \A k \in 1..Len(fn.items) :
              Lower(fn.items[k].category) \notin {"shoes", "bottom", "dress"}
                  => \E j \in 1..Len(fn.result) : fn.result[j] = fn.item_ids[k]

(***************************************************************************)
(* Claims about the ids a lane returns                                     *)
(***************************************************************************)
\* C11: every item id of a proposal a lane returns is the id of an item of
\* the candidate pool the generator was given; an id the generator invented
\* never appears in a returned outfit.
C11_OnlyPoolIds ==
    \A i \in DOMAIN lane :
        lane[i].pc = "returned" =>
            \A k \in 1..Len(lane[i].outfit) : lane[i].outfit[k] \in Ids(closet_summary)

(***************************************************************************)
(* check_color_compatibility                                               *)
(***************************************************************************)
neutrals == {"black", "white", "gray", "grey", "beige", "tan", "cream", "navy", "brown", "khaki"}

color_clashes == { {"red", "pink"}, {"orange", "red"}, {"purple", "pink"},
                   {"orange", "pink"}, {"green", "magenta"}, {"yellow", "pink"} }

\* [c.lower() for c in colors if c]
NormalizeColors(colors) == 
    LET kept == SelectSeq(colors, LAMBDA c : c # "" /\ c # NULL)
    IN  [k \in 1..Len(kept) |-> Lower(kept[k])]

AllNeutral(colors) == \A k \in 1..Len(colors) : colors[k] \in neutrals

\* a clash test without `color1 != color2`
Clash_SameColour(colors1, colors2) ==
    \E i \in 1..Len(colors1) : \E j \in 1..Len(colors2) :
        \E clash_set \in color_clashes :
            /\ colors1[i] \in clash_set
            /\ colors2[j] \in clash_set

Clash(colors1, colors2) ==
    \E i \in 1..Len(colors1) : \E j \in 1..Len(colors2) :
        \E clash_set \in color_clashes :
            /\ colors1[i] \in clash_set
            /\ colors2[j] \in clash_set
            /\ colors1[i] # colors2[j]

\* the first component of the returned pair; every return after the clash
\* loop is True
check_color_compatibility(colors1, colors2) ==
    IF colors1 = <<>> \/ colors2 = <<>> THEN TRUE
    ELSE LET c1 == NormalizeColors(colors1)
             c2 == NormalizeColors(colors2)
         IN  IF AllNeutral(c1) \/ AllNeutral(c2) THEN TRUE
             ELSE ~Clash(c1, c2)

(***************************************************************************)
(* can_pair_together                                                       *)
(***************************************************************************)
valid_pairs ==
    [top       |-> {"bottom", "dress", "outerwear", "shoes", "accessory"},
     bottom    |-> {"top", "outerwear", "shoes", "accessory"},
     dress     |-> {"outerwear", "shoes", "accessory"},
     outerwear |-> {"top", "bottom", "dress", "shoes", "accessory"},
     shoes     |-> {"top", "bottom", "dress", "outerwear", "accessory"},
     accessory |-> {"top", "bottom", "dress", "outerwear", "shoes", "accessory"}]

casual_group == {"casual", "very casual", "athleisure", "relaxed", "sporty", "informal", "loungewear"}
smart_casual_group == {"smart-casual", "smart casual", "business casual", "business-casual", "semi-formal"}
formal_group == {"formal", "business", "professional", "black tie", "cocktail", "business-formal"}

\* Python truthiness of an Optional[str]
Falsy(v) == v = NULL \/ v = ""

\* formality.lower() if formality else 'casual'
FormalityOf(v) == IF Falsy(v) THEN "casual" ELSE Lower(v)

\* form1_group / form2_group; NULL is Python's None
FormGroup(formality) ==
    IF formality \in casual_group THEN "casual"
    ELSE IF formality \in smart_casual_group THEN "smart-casual"
    ELSE IF formality \in formal_group THEN "formal"
    ELSE NULL

\* RULE 5: formality_compatible
FormalityCompatible(f1, f2) ==
    LET formality1 == FormalityOf(f1)
        formality2 == FormalityOf(f2)
        form1_group == FormGroup(formality1)
        form2_group == FormGroup(formality2)
    IN  IF form1_group = form2_group THEN TRUE
        ELSE IF \/ (form1_group = "casual" /\ form2_group = "smart-casual")
                \/ (form1_group = "smart-casual" /\ form2_group = "casual") THEN TRUE
        ELSE IF \/ (form1_group = "smart-casual" /\ form2_group = "formal")
                \/ (form1_group = "formal" /\ form2_group = "smart-casual") THEN TRUE
        ELSE IF formality1 = "" \/ formality2 = "" THEN TRUE
        ELSE FALSE

\* a category rule that looks the pair up in either direction of the table
CategoriesPair_EitherWay(cat1, cat2) ==
    IF Falsy(cat1) \/ Falsy(cat2) \/ cat1 = "unknown" \/ cat2 = "unknown" THEN FALSE
    ELSE IF cat1 = cat2 /\ cat1 # "accessory" THEN FALSE
    ELSE IF cat1 \notin DOMAIN valid_pairs \/ cat2 \notin DOMAIN valid_pairs THEN FALSE
    ELSE cat2 \in valid_pairs[cat1] \/ cat1 \in valid_pairs[cat2]

\* RULES 1-3: the categories let the pair through
CategoriesPair(cat1, cat2) ==
    IF Falsy(cat1) \/ Falsy(cat2) \/ cat1 = "unknown" \/ cat2 = "unknown" THEN FALSE
    ELSE IF cat1 = cat2 /\ cat1 # "accessory" THEN FALSE
    ELSE IF cat1 \notin DOMAIN valid_pairs THEN FALSE
    ELSE cat2 \in valid_pairs[cat1]

can_pair_together(item1, item2) ==
    IF ~CategoriesPair(item1.category, item2.category) THEN FALSE
    ELSE IF ~check_color_compatibility(item1.colors, item2.colors) THEN FALSE
    ELSE FormalityCompatible(item1.formality, item2.formality)

(***************************************************************************)
(* Specification of can_pair_together called on a pair of garments and     *)
(* then on the same pair in the other order                                *)
(***************************************************************************)
PairCategories == {NULL, "unknown", "Top", "top", "bottom", "dress", "outerwear", "shoes", "accessory"}
PairFormalities == {NULL, "casual", "smart casual", "formal", "Formal", "streetwear"}
PairColors == { <<>>, <<"black">>, <<"red">>, <<"pink">> }

Garments == [category : PairCategories, colors : PairColors, formality : PairFormalities]

InitPair ==
    /\ \E item1 \in Garments : \E item2 \in Garments :
         fn = [name |-> "can_pair_together", pc |-> "called",
               item1 |-> item1, item2 |-> item2, result |-> FALSE, swapped |-> FALSE]
    /\ pc = "none"
    /\ req = NoRequest
    /\ requirements = NoRequirements
    /\ closet_summary = <<>>
    /\ lane = [i \in Lanes |-> IdleLane]
    /\ valid_outfits = <<>>
    /\ response = NoResponse
    /\ shopping = ShopNotCalled
    /\ stub = "none"

\* can_pair_together(item1, item2) returns
PairReturns ==
    /\ fn.name = "can_pair_together"
    /\ fn.pc = "called"
    /\ fn' = [fn EXCEPT !.pc = "returned",
                        !.result = can_pair_together(fn.item1, fn.item2)]
    /\ UNCHANGED <<pc, req, requirements, closet_summary, lane, valid_outfits,
                   response, shopping, stub>>

\* can_pair_together(item2, item1) returns
SwappedPairReturns ==
    /\ fn.name = "can_pair_together"
    /\ fn.pc = "returned"
    /\ fn' = [fn EXCEPT !.pc = "both",
                        !.swapped = can_pair_together(fn.item2, fn.item1)]
    /\ UNCHANGED <<pc, req, requirements, closet_summary, lane, valid_outfits,
                   response, shopping, stub>>

NextPair == PairReturns \/ SwappedPairReturns

SpecPair == InitPair /\ [][NextPair]_vars

(***************************************************************************)
(* Specification of check_color_compatibility called on two colour lists   *)
(***************************************************************************)
MaxColors == 2

Palette == {"", "black", "red", "Red", "pink", "green"}

InitColor ==
    /\ \E colors1 \in SeqsUpTo(Palette, MaxColors) :
       \E colors2 \in SeqsUpTo(Palette, MaxColors) :
         fn = [name |-> "check_color_compatibility", pc |-> "called",
               colors1 |-> colors1, colors2 |-> colors2, result |-> FALSE]
    /\ pc = "none"
    /\ req = NoRequest
    /\ requirements = NoRequirements
    /\ closet_summary = <<>>
    /\ lane = [i \in Lanes |-> IdleLane]
    /\ valid_outfits = <<>>
    /\ response = NoResponse
    /\ shopping = ShopNotCalled
    /\ stub = "none"

ColorReturns ==
    /\ fn.name = "check_color_compatibility"
    /\ fn.pc = "called"
    /\ fn' = [fn EXCEPT !.pc = "returned",
                        !.result = check_color_compatibility(fn.colors1, fn.colors2)]
    /\ UNCHANGED <<pc, req, requirements, closet_summary, lane, valid_outfits,
                   response, shopping, stub>>

NextColor == ColorReturns

SpecColor == InitColor /\ [][NextColor]_vars

(***************************************************************************)
(* Claims about the pairwise verdict                                       *)
(***************************************************************************)
\* C12: the verdict is order-independent: can_pair_together(a, b) equals
\* can_pair_together(b, a) for every pair of garments.
C12_Symmetric ==
    (fn.name = "can_pair_together" /\ fn.pc = "both") => fn.result = fn.swapped

PairAnswered == fn.name = "can_pair_together" /\ fn.pc # "called"

\* the call whose verdict the named rule alone decides: the other two rules
\* let the pair through
ColorsPass == check_color_compatibility(fn.item1.colors, fn.item2.colors)
CategoriesPass == CategoriesPair(fn.item1.category, fn.item2.category)
FormalityPasses == FormalityCompatible(fn.item1.formality, fn.item2.formality)

\* the group a formality string maps to, "none" when it is missing or maps to
\* none of the three groups
GroupOf(v) ==
    IF Falsy(v) \/ FormGroup(Lower(v)) = NULL THEN "none" ELSE FormGroup(Lower(v))

\* C16: under the formality rule two garments of the same group pass,
\* adjacent groups pass, casual with formal fails, and the rule passes
\* whenever either garment's formality is missing or maps to no group.
C16_FormalityRule ==
    (PairAnswered /\ CategoriesPass /\ ColorsPass) =>
        LET g1 == GroupOf(fn.item1.formality)
            g2 == GroupOf(fn.item2.formality)
        IN  fn.result = (IF g1 = "none" \/ g2 = "none" THEN TRUE
                         ELSE {g1, g2} # {"casual", "formal"})

SixCategories == {"top", "bottom", "dress", "outerwear", "shoes", "accessory"}

\* C17: the verdict is fail whenever either category is missing, "unknown" or
\* not one of the six table categories; two garments of one category fail
\* unless both are accessory; otherwise the pair passes the category rule only
\* if the second garment's category is in the first's complement set.
C17_CategoryRule ==
    PairAnswered =>
        LET cat1 == fn.item1.category
            cat2 == fn.item2.category
            passes == /\ cat1 \in SixCategories
                      /\ cat2 \in SixCategories
                      /\ (cat1 = cat2 => cat1 = "accessory")
                      /\ cat2 \in valid_pairs[cat1]
        IN  /\ fn.result => passes
            /\ (ColorsPass /\ FormalityPasses) => (fn.result = passes)

\* C17 witness: two accessories, the one pair of equal categories that the
\* verdict lets through.
C17_Witness ==
    /\ PairAnswered
    /\ fn.item1.category = "accessory"
    /\ fn.item2.category = "accessory"
    /\ fn.result

LowerAll(colors) == [k \in 1..Len(colors) |-> Lower(colors[k])]

\* some colour of one side and a different colour of the other side belong to
\* one blacklisted pair
BlacklistedPair(colors1, colors2) ==
    \E a \in Range(LowerAll(colors1)) : \E b \in Range(LowerAll(colors2)) :
        a # b /\ {a, b} \in color_clashes

\* C18: the colour rule passes when either list is empty, passes when every
\* colour of at least one side is neutral, otherwise rejects iff a colour of
\* one side and a different colour of the other side form a blacklisted
\* pair, and passes in every remaining case.
C18_ColourRule ==
    (fn.name = "check_color_compatibility" /\ fn.pc = "returned") =>
        fn.result =
            (\/ fn.colors1 = <<>>
             \/ fn.colors2 = <<>>
             \/ Range(LowerAll(fn.colors1)) \subseteq neutrals
             \/ Range(LowerAll(fn.colors2)) \subseteq neutrals
             \/ ~BlacklistedPair(fn.colors1, fn.colors2))

\* C18 witness: a call rejected for a blacklisted pair across the two sides,
\* one of which also holds a neutral colour.
C18_Witness ==
    /\ fn.name = "check_color_compatibility"
    /\ fn.pc = "returned"
    /\ ~fn.result
    /\ fn.colors1 = <<"black", "Red">>
    /\ fn.colors2 = <<"pink">>

(***************************************************************************)
(* validate_outfit_against_requirements                                    *)
(***************************************************************************)
\* item_lookup.get(item_id) for each id, None values removed
OutfitItems(itemIds, closet_items) == get_item_details(itemIds, closet_items)

\* outfit_categories = [item.category for item in outfit_items]
OutfitCategories(outfit_items) == { outfit_items[k].category : k \in 1..Len(outfit_items) }

\* an essential check that wants every combination present
EssentialSatisfied_EveryCombo(essential_categories, outfit_categories) ==
    \A k \in 1..Len(essential_categories) :
        Range(essential_categories[k]) \subseteq outfit_categories

\* Check 1: skipped when essential_categories is empty, else some combination
\* has all its categories in the outfit
EssentialSatisfied(essential_categories, outfit_categories) ==
    \/ essential_categories = <<>>
    \/ \E k \in 1..Len(essential_categories) :
          Range(essential_categories[k]) \subseteq outfit_categories

validate_outfit_against_requirements(itemIds, closet_items, reqs) ==
    LET outfit_items == OutfitItems(itemIds, closet_items)
        outfit_categories == OutfitCategories(outfit_items)
        item_count == Len(outfit_items)
    IN  IF outfit_items = <<>> THEN FALSE
        ELSE IF ~EssentialSatisfied(reqs.essential_categories, outfit_categories) THEN FALSE
        ELSE IF Range(reqs.avoid_categories) \cap outfit_categories # {} THEN FALSE
        ELSE IF item_count < reqs.min_items \/ item_count > reqs.max_items THEN FALSE
        ELSE TRUE

(***************************************************************************)
(* Specification of validate_outfit_against_requirements called on an      *)
(* outfit, a closet and requirements                                       *)
(***************************************************************************)
ValidateCloset == <<ItemA, ItemB, ItemD, ItemC>>

ValidateEssentials ==
    { <<>>, << <<>> >>, << <<"top", "bottom">>, <<"dress">> >>, << <<"shoes">> >> }

ValidateAvoids == { <<>>, <<"dress">>, <<"shoes", "bottom">> }

ValidateRanges == { <<0, 3>>, <<1, 1>>, <<2, 3>>, <<3, 2>> }

ValidateRequirements ==
    { Requirements(e, a, r[1], r[2]) :
        e \in ValidateEssentials, a \in ValidateAvoids, r \in ValidateRanges }

InitValidate ==
    /\ \E ids \in SeqsUpTo(Ids(ValidateCloset) \cup {UnknownId}, MaxLen) :
       \E reqs \in ValidateRequirements :
         fn = [name |-> "validate_outfit_against_requirements", pc |-> "called",
               itemIds |-> ids, closet_items |-> ValidateCloset,
               requirements |-> reqs, result |-> FALSE]
    /\ pc = "none"
    /\ req = NoRequest
    /\ requirements = NoRequirements
    /\ closet_summary = <<>>
    /\ lane = [i \in Lanes |-> IdleLane]
    /\ valid_outfits = <<>>
    /\ response = NoResponse
    /\ shopping = ShopNotCalled
    /\ stub = "none"

ValidateReturns ==
    /\ fn.name = "validate_outfit_against_requirements"
    /\ fn.pc = "called"
    /\ fn' = [fn EXCEPT !.pc = "returned",
                        !.result = validate_outfit_against_requirements(
                                       fn.itemIds, fn.closet_items, fn.requirements)]
    /\ UNCHANGED <<pc, req, requirements, closet_summary, lane, valid_outfits,
                   response, shopping, stub>>

NextValidate == ValidateReturns

SpecValidate == InitValidate /\ [][NextValidate]_vars

(***************************************************************************)
(* Claims about validate_outfit_against_requirements                       *)
(***************************************************************************)
ValidateAnswered ==
    fn.name = "validate_outfit_against_requirements" /\ fn.pc = "returned"

\* the items the outfit's ids name in the closet, and their categories
NamedItems ==
    SelectSeq(fn.itemIds, LAMBDA id : \E k \in 1..Len(fn.closet_items) : fn.closet_items[k].id = id)

NamedCategories ==
    { fn.closet_items[k].category :
        k \in { j \in 1..Len(fn.closet_items) : fn.closet_items[j].id \in Range(NamedItems) } }

SomeEssentialContained ==
    \E inner \in Range(fn.requirements.essential_categories) :
        Range(inner) \subseteq NamedCategories

NoAvoided == Range(fn.requirements.avoid_categories) \cap NamedCategories = {}

CountInRange ==
    /\ Len(NamedItems) >= fn.requirements.min_items
    /\ Len(NamedItems) <= fn.requirements.max_items

\* C15 as stated: the outfit is accepted iff (1) some inner set of
\* essential_categories is contained in its category set, (2) it holds no
\* category of avoid_categories and (3) its item count is in
\* [min_items, max_items].
C15_AcceptIff ==
    ValidateAnswered =>
        fn.result = (SomeEssentialContained /\ NoAvoided /\ CountInRange)

\* C15 amended: the outfit is accepted iff at least one of its ids names a
\* closet item and (1) essential_categories is empty or some inner set of it
\* is contained in the outfit's category set, (2) it holds no category of
\* avoid_categories and (3) the number of its items found in the closet is
\* in [min_items, max_items]; with essential [[top,bottom],[dress]],
\* {top,bottom} and {dress} pass the first condition and {top} fails it.
C15_AcceptIffResolved ==
    ValidateAnswered =>
        /\ fn.result =
              (/\ NamedItems # <<>>
               /\ (fn.requirements.essential_categories = <<>> \/ SomeEssentialContained)
               /\ NoAvoided
               /\ CountInRange)
        /\ (/\ fn.requirements = Requirements(<< <<"top", "bottom">>, <<"dress">> >>, <<>>, 0, 3)
            /\ fn.itemIds \in { <<"A", "B">>, <<"D">>, <<"A">> })
               => fn.result = (fn.itemIds # <<"A">>)

\* C15 witness: with essential [[top,bottom],[dress]] the dress alone was
\* accepted.
C15_Witness ==
    /\ ValidateAnswered
    /\ fn.requirements.essential_categories = << <<"top", "bottom">>, <<"dress">> >>
    /\ fn.itemIds = <<"D">>
    /\ fn.result

(***************************************************************************)
(* Specification of detect_duplicate_categories called on a candidate set  *)
(***************************************************************************)
DetectItems == {ItemA, ItemT, ItemK, ItemJ, ItemB, ItemB2, ItemC, ItemC2,
                ItemD, ItemD2, ItemO, ItemO2, ItemU}

NoVerdict == [raised |-> FALSE, has_duplicates |-> FALSE, error_message |-> <<>>]

\* the call returns (has_duplicates, error_message), or AttributeError leaves it
DetectOutcome(items) ==
    IF DetectRaises(items)
    THEN [NoVerdict EXCEPT !.raised = TRUE]
    ELSE [raised |-> FALSE,
          has_duplicates |-> detect_duplicate_categories(items).has_duplicates,
          error_message  |-> detect_duplicate_categories(items).error_message]

InitDetect ==
    /\ \E items \in SeqsUpTo(DetectItems, MaxLen) :
         fn = [name |-> "detect_duplicate_categories", pc |-> "called",
               items |-> items, result |-> NoVerdict]
    /\ pc = "none"
    /\ req = NoRequest
    /\ requirements = NoRequirements
    /\ closet_summary = <<>>
    /\ lane = [i \in Lanes |-> IdleLane]
    /\ valid_outfits = <<>>
    /\ response = NoResponse
    /\ shopping = ShopNotCalled
    /\ stub = "none"

DetectReturns ==
    /\ fn.name = "detect_duplicate_categories"
    /\ fn.pc = "called"
    /\ fn' = [fn EXCEPT !.pc = "over", !.result = DetectOutcome(fn.items)]
    /\ UNCHANGED <<pc, req, requirements, closet_summary, lane, valid_outfits,
                   response, shopping, stub>>

NextDetect == DetectReturns

SpecDetect == InitDetect /\ [][NextDetect]_vars

(***************************************************************************)
(* Claims about detect_duplicate_categories                                *)
(***************************************************************************)
DetectOver == fn.name = "detect_duplicate_categories" /\ fn.pc = "over"

Flagged == ~fn.result.raised /\ fn.result.has_duplicates
NotFlagged == ~fn.result.raised /\ ~fn.result.has_duplicates

HardViolation ==
    \/ CountWhere(fn.items, "bottom") > 1
    \/ CountWhere(fn.items, "shoes") > 1
    \/ CountWhere(fn.items, "dress") > 1
    \/ (CountWhere(fn.items, "dress") > 0 /\ CountWhere(fn.items, "bottom") > 0)
    \/ CountWhere(fn.items, "outerwear") > 1

\* C13: detection flags every candidate set with more than one bottom, more
\* than one shoes, more than one dress, a dress together with a bottom, or
\* more than one outerwear, whatever else the set holds, and does not flag a
\* set with none of these and at most one top.
C13_FlagsHardViolations ==
    DetectOver =>
        /\ HardViolation => Flagged
        /\ (~HardViolation /\ CountWhere(fn.items, "top") <= 1) => NotFlagged

\* a top tagged (subcategory) or named with one of the keywords
TaggedOrNamed(t, keywords) ==
    \E kw \in keywords :
        \/ (t.subcategory # NULL /\ Contains(kw, Lower(t.subcategory)))
        \/ Contains(kw, Lower(t.name))

\* C14: a candidate set with more than one top and no other duplicate
\* violation passes detection iff one of its tops is tagged or named as a
\* base layer (tank, undershirt, base layer) and one is tagged or named as an
\* outer layer (cardigan, blazer, jacket).
C14_LayeringIff ==
    (DetectOver /\ CountWhere(fn.items, "top") > 1 /\ ~HardViolation) =>
        LET tops == ItemsOf(fn.items, "top")
            layered ==
                /\ \E k \in 1..Len(tops) : TaggedOrNamed(tops[k], {"tank", "undershirt", "base layer"})
                /\ \E k \in 1..Len(tops) : TaggedOrNamed(tops[k], {"cardigan", "blazer", "jacket"})
        IN  IF layered THEN NotFlagged ELSE Flagged

(***************************************************************************)
(* scoring.py: exact fractions for the float arithmetic of the scores      *)
(***************************************************************************)
RECURSIVE GCD(_, _)
GCD(a, b) == IF b = 0 THEN a ELSE GCD(b, a % b)

Frac(n, d) == LET g == GCD(n, d) IN [n |-> n \div g, d |-> d \div g]

FAdd(a, b) == Frac(a.n * b.d + b.n * a.d, a.d * b.d)
FMul(a, b) == Frac(a.n * b.n, a.d * b.d)
FLeq(a, b) == a.n * b.d <= b.n * a.d
FMin(a, b) == IF FLeq(a, b) THEN a ELSE b
FMax(a, b) == IF FLeq(a, b) THEN b ELSE a

Zero == Frac(0, 1)
One == Frac(1, 1)

RECURSIVE FSum(_)
FSum(s) == IF s = <<>> THEN Zero ELSE FAdd(Head(s), FSum(Tail(s)))

\* x ** 1.5 for 0 < x < 1, to three decimals: the largest k/1000 whose square
\* is at most x cubed
Pow15(x) ==
    LET k == CHOOSE j \in 0..1000 :
                /\ j * j * x.d * x.d * x.d <= 1000000 * x.n * x.n * x.n
                /\ (j + 1) * (j + 1) * x.d * x.d * x.d > 1000000 * x.n * x.n * x.n
    IN  Frac(k, 1000)

\* round(x, 3) in thousandths. The float that is rounded carries the error
\* of the sums and the division before it, so a value that is exactly half
\* way between two thousandths can come out on either side.
Round3(x) ==
    LET q == (x.n * 1000) \div x.d
        r == (x.n * 1000) % x.d
    IN  IF 2 * r > x.d THEN {q + 1}
        ELSE IF 2 * r < x.d THEN {q}
        ELSE {q, q + 1}

(***************************************************************************)
(* Wardrobe items as the scoring functions read them; NULL is a field that *)
(* is absent or None                                                       *)
(***************************************************************************)
ScoreS1 == [category |-> "top", subcategory |-> NULL, name |-> "Plain Tee",
            colors |-> <<"Black">>, formality |-> "casual", versatility |-> "high",
            styleTags |-> <<"minimal">>,
            occasions |-> <<"work", "weekend", "date", "travel", "errands">>,
            season |-> <<"spring", "Summer", "autumn", "monsoon", "dry", "wet", "cold", "resort">>]
ScoreS2 == [category |-> "dress", subcategory |-> NULL, name |-> "Maxi",
            colors |-> <<"red", "pink">>, formality |-> "smart-casual", versatility |-> "low",
            styleTags |-> <<"boho">>,
            occasions |-> <<"party", "beach", "brunch", "festival", "wedding">>,
            season |-> <<"early-spring", "late-spring", "high-summer", "indian-summer",
                         "harvest", "holiday", "rainy", "all-year">>]
ScoreS3 == [category |-> "bottom", subcategory |-> NULL, name |-> "Slacks",
            colors |-> NULL, formality |-> NULL, versatility |-> NULL,
            styleTags |-> NULL, occasions |-> NULL, season |-> NULL]
ScoreS4 == [category |-> "outerwear", subcategory |-> NULL, name |-> "Running Jacket",
            colors |-> <<>>, formality |-> "athletic", versatility |-> "moderate",
            styleTags |-> <<"minimal", "sporty">>, occasions |-> <<>>,
            season |-> <<"summer", "Summer", "winter">>]
ScoreS5 == [category |-> "shoes", subcategory |-> NULL, name |-> "Suit Shoes",
            colors |-> <<"green">>, formality |-> "formal", versatility |-> NULL,
            styleTags |-> NULL, occasions |-> <<"work">>,
            season |-> <<"fall", "All-Season", "winter">>]
ScoreS6 == [category |-> NULL, subcategory |-> NULL, name |-> NULL,
            colors |-> <<"olive">>, formality |-> "formal", versatility |-> "low",
            styleTags |-> <<"boho">>, occasions |-> NULL,
            season |-> <<"monsoon", "winter">>]

ScoringItems == {ScoreS1, ScoreS2, ScoreS3, ScoreS4, ScoreS5, ScoreS6}

\* safe_get_list: None and a missing key give []
safe_get_list(item, field) == IF item[field] = NULL THEN <<>> ELSE item[field]

\* safe_get_string: None and a missing key give the default
safe_get_string(item, field, default) == IF item[field] = NULL THEN default ELSE item[field]

\* the lower-cased strings of a list field
LowerSet(list) == { Lower(list[k]) : k \in 1..Len(list) }

\* sum(scores) / len(scores)
Average(scores) == FMul(FSum(scores), Frac(1, Len(scores)))

\* Counter(...).get(value, 0) over one string field of the items
CountField(items, field, default, value) ==
    Cardinality({ k \in 1..Len(items) : safe_get_string(items[k], field, default) = value })

NoItemsResult == [score |-> Zero, reason |-> "No items to analyze"]
Scored(score) == [score |-> score, reason |-> ""]

(***************************************************************************)
(* calculate_versatility_score                                             *)
(***************************************************************************)
neutral_colors == {"black", "white", "gray", "grey", "navy", "beige", "cream", "tan", "brown"}
versatile_colors == neutral_colors \cup {"denim", "khaki", "olive"}

ColorScore(item) ==
    LET item_colors == LowerSet(safe_get_list(item, "colors"))
    IN  IF item_colors \cap versatile_colors # {} THEN Frac(10, 10)
        ELSE IF item_colors # {} THEN Frac(5, 10)
        ELSE Frac(3, 10)

FormalityScore(item) ==
    LET formality == safe_get_string(item, "formality", "casual")
        versatility == safe_get_string(item, "versatility", "moderate")
    IN  IF versatility = "high" THEN Frac(10, 10)
        ELSE IF formality \in {"smart-casual", "business-casual"} THEN Frac(8, 10)
        ELSE IF versatility = "moderate" THEN Frac(6, 10)
        ELSE Frac(4, 10)

BalanceRatio(tops, bottoms) ==
    IF tops > 0 /\ bottoms > 0
    THEN Frac(IF tops < bottoms THEN tops ELSE bottoms, IF tops < bottoms THEN bottoms ELSE tops)
    ELSE IF tops > 0 \/ bottoms > 0 THEN Frac(3, 10)
    ELSE Frac(1, 10)

\* min(outerwear / max(tops + bottoms, 1) * 2, 0.2)
LayeringBonus(outerwear, tops, bottoms) ==
    FMin(Frac(2 * outerwear, IF tops + bottoms > 1 THEN tops + bottoms ELSE 1), Frac(2, 10))

\* the weighted sum before `min(versatility_score, 1.0)`
VersatilityRaw(items) ==
    LET tops == CountField(items, "category", "other", "top")
        bottoms == CountField(items, "category", "other", "bottom")
        outerwear == CountField(items, "category", "other", "outerwear")
    IN  FSum(<< FMul(Average([k \in 1..Len(items) |-> ColorScore(items[k])]), Frac(35, 100)),
                FMul(Average([k \in 1..Len(items) |-> FormalityScore(items[k])]), Frac(35, 100)),
                FMul(BalanceRatio(tops, bottoms), Frac(25, 100)),
                FMul(LayeringBonus(outerwear, tops, bottoms), Frac(5, 100)) >>)

calculate_versatility_score(items) ==
    IF items = <<>> THEN NoItemsResult
    ELSE Scored(FMin(VersatilityRaw(items), One))

(***************************************************************************)
(* calculate_cohesion_score                                                *)
(***************************************************************************)
\* every string of one list field over all the items, as (item, position) slots
Slots(items, field) ==
    UNION { { <<k, j>> : j \in 1..Len(safe_get_list(items[k], field)) } : k \in 1..Len(items) }

SlotValue(items, field, sl) == safe_get_list(items[sl[1]], field)[sl[2]]

ColorCohesion(items) ==
    LET all_colors == { Lower(SlotValue(items, "colors", sl)) : sl \in Slots(items, "colors") }
        total_colors == Cardinality(all_colors)
    IN  IF all_colors = {} THEN Frac(5, 10)
        ELSE IF total_colors <= 2 THEN Frac(8, 10)
        ELSE IF total_colors <= 10 THEN One
        ELSE IF total_colors <= 15 THEN Frac(85, 100)
        ELSE IF total_colors <= 20 THEN Frac(7, 10)
        ELSE FMax(Frac(5, 10), Frac(100 - (total_colors - 20) * 3, 100))

\* styles whose count is at least 15% of the number of items
DominantStyles(items) ==
    LET slots == Slots(items, "styleTags")
        count(style) == Cardinality({ sl \in slots : SlotValue(items, "styleTags", sl) = style })
    IN  { style \in { SlotValue(items, "styleTags", sl) : sl \in slots } :
            count(style) * 100 >= Len(items) * 15 }

StyleConsistency(items) ==
    LET dominant_styles == DominantStyles(items)
    IN  IF Slots(items, "styleTags") = {} THEN Frac(5, 10)
        ELSE IF dominant_styles # {}
        THEN FAdd(FMul(FMin(Frac(Cardinality(dominant_styles), 3), One), Frac(8, 10)), Frac(2, 10))
        ELSE Frac(6, 10)

FormalityCoherence(items) ==
    LET has_very_formal == CountField(items, "formality", "casual", "formal") * 10 > Len(items) * 3
        has_very_casual == CountField(items, "formality", "casual", "athletic") * 10 > Len(items) * 3
    IN  IF has_very_formal /\ has_very_casual THEN Frac(75, 100) ELSE Frac(95, 100)

\* the weighted sum before `min(cohesion_score, 1.0)`
CohesionRaw(items) ==
    FSum(<< FMul(ColorCohesion(items), Frac(4, 10)),
            FMul(StyleConsistency(items), Frac(4, 10)),
            FMul(FormalityCoherence(items), Frac(2, 10)) >>)

calculate_cohesion_score(items) ==
    IF items = <<>> THEN NoItemsResult
    ELSE Scored(FMin(CohesionRaw(items), One))

(***************************************************************************)
(* detect_wardrobe_style and get_relevant_essentials                       *)
(***************************************************************************)
feminine_indicators == {"dress", "skirt", "blouse", "heels", "pumps", "purse", "handbag",
                        "bra", "lingerie", "romper", "bodysuit", "leggings"}
masculine_indicators == {"suit", "tie", "dress-shirt", "boxers", "briefs", "blazer"}
athletic_keywords == {"athletic", "sport", "gym", "yoga", "running", "workout"}

LowerField(item, field) == Lower(safe_get_string(item, field, ""))

IsFeminine(item) ==
    \/ LowerField(item, "category") \in feminine_indicators
    \/ LowerField(item, "subcategory") \in feminine_indicators
    \/ \E ind \in {"dress", "skirt", "blouse", "heel", "pump"} : Contains(ind, LowerField(item, "name"))

IsMasculine(item) ==
    \/ LowerField(item, "category") \in masculine_indicators
    \/ LowerField(item, "subcategory") \in masculine_indicators
    \/ \E ind \in {"suit", "tie", "boxer", "brief"} : Contains(ind, LowerField(item, "name"))

IsAthletic(item) ==
    \E kw \in athletic_keywords :
        Contains(kw, LowerField(item, "category")) \/ Contains(kw, LowerField(item, "name"))

IsFormal(item) == safe_get_string(item, "formality", "") \in {"formal", "business", "professional"}

detect_wardrobe_style(items) ==
    LET fem_count == Cardinality({ k \in 1..Len(items) : IsFeminine(items[k]) })
        masc_count == Cardinality({ k \in 1..Len(items) : IsMasculine(items[k]) })
        categories_found == { LowerField(items[k], "category") : k \in 1..Len(items) }
        has_dresses == "dress" \in categories_found
        has_skirts == "skirt" \in categories_found
        athletic_count == Cardinality({ k \in 1..Len(items) : IsAthletic(items[k]) })
        formal_count == Cardinality({ k \in 1..Len(items) : IsFormal(items[k]) })
    IN  IF items = <<>>
        THEN [style |-> "neutral", has_dresses |-> FALSE, lifestyle |-> {}]
        ELSE [style |-> IF has_dresses \/ has_skirts \/ fem_count > masc_count * 2 THEN "feminine"
                        ELSE IF masc_count > fem_count * 2 /\ ~has_dresses THEN "masculine"
                        ELSE IF fem_count > 0 /\ masc_count > 0 THEN "mixed"
                        ELSE "neutral",
              has_dresses |-> has_dresses,
              lifestyle |-> (IF athletic_count * 100 > Len(items) * 15 THEN {"athletic"} ELSE {})
                            \cup (IF formal_count * 10 > Len(items) * 2 THEN {"professional"} ELSE {})]

\* the essentials dict as a function from category to recommended quantity
get_relevant_essentials(wardrobe_style) ==
    LET professional == "professional" \in wardrobe_style.lifestyle
        dresses == wardrobe_style.has_dresses
        style == wardrobe_style.style
        keys == {"top", "bottom", "outerwear", "shoes"}
                \cup (IF style \in {"feminine", "mixed"} /\ dresses THEN {"dress"} ELSE {})
                \cup (IF "athletic" \in wardrobe_style.lifestyle THEN {"activewear"} ELSE {})
    IN  [c \in keys |->
            CASE c = "top" -> IF professional THEN 12 ELSE 10
              [] c = "bottom" -> IF professional THEN 7
                                 ELSE IF style = "feminine" /\ dresses THEN 5 ELSE 6
              [] c = "outerwear" -> 3
              [] c = "shoes" -> IF style = "feminine" THEN 6 ELSE 5
              [] c = "dress" -> IF style = "feminine" THEN 3 ELSE 1
              [] c = "activewear" -> 4]

(***************************************************************************)
(* calculate_completeness_score                                            *)
(***************************************************************************)
\* the keys of the essentials dict in insertion order
EssentialOrder == <<"top", "bottom", "outerwear", "shoes", "dress", "activewear">>

Coverage(actual, recommended) ==
    IF actual = 0 THEN Zero
    ELSE IF actual >= recommended THEN One
    ELSE Pow15(Frac(actual, recommended))

AvgCoverage(items) ==
    LET essentials == get_relevant_essentials(detect_wardrobe_style(items))
        InDict(c) == c \in DOMAIN essentials
        present == SelectSeq(EssentialOrder, InDict)
        coverage_scores == [k \in 1..Len(present) |->
            Coverage(CountField(items, "category", "other", present[k]), essentials[present[k]])]
    IN  IF coverage_scores = <<>> THEN Zero ELSE Average(coverage_scores)

OccasionCoverage(items) ==
    LET occasions == { safe_get_string(items[k], "formality", "casual") : k \in 1..Len(items) }
                     \cup { SlotValue(items, "occasions", sl) : sl \in Slots(items, "occasions") }
    IN  FMin(Frac(Cardinality(occasions), 6), One)

\* len(all_seasons) / 4 if all_seasons else 0.5
SeasonalCoverage(items) ==
    LET all_seasons == { Lower(SlotValue(items, "season", sl)) : sl \in Slots(items, "season") }
    IN  IF all_seasons = {} THEN Frac(5, 10) ELSE Frac(Cardinality(all_seasons), 4)

\* the weighted sum before `min(completeness_score, 1.0)`
CompletenessRaw(items) ==
    FSum(<< FMul(AvgCoverage(items), Frac(5, 10)),
            FMul(OccasionCoverage(items), Frac(3, 10)),
            FMul(SeasonalCoverage(items), Frac(2, 10)) >>)

\* min(completeness_score, 1.0)
Capped_Absent(score) == score

Capped(score) == FMin(score, One)

calculate_completeness_score(items) ==
    IF items = <<>> THEN NoItemsResult
    ELSE Scored(Capped(CompletenessRaw(items)))

(***************************************************************************)
(* calculate_seasonal_distribution                                         *)
(***************************************************************************)
FourSeasons == <<"spring", "summer", "fall", "winter">>

\* the loop over seasons_raw: recognised tags are appended as they come,
\* 'all-season' replaces the list and ends the loop, other tags are skipped
RECURSIVE SeasonsFrom(_, _)
SeasonsFrom(seasons_raw, seasons) ==
    IF seasons_raw = <<>> THEN seasons
    ELSE LET s_lower == Lower(Head(seasons_raw))
         IN  IF s_lower \in Range(FourSeasons)
             THEN SeasonsFrom(Tail(seasons_raw), Append(seasons, s_lower))
             ELSE IF s_lower = "all-season" THEN FourSeasons
             ELSE SeasonsFrom(Tail(seasons_raw), seasons)

ItemSeasons(item) ==
    LET seasons == SeasonsFrom(safe_get_list(item, "season"), <<>>)
    IN  IF seasons = <<>> THEN FourSeasons ELSE seasons

SeasonWeight_Whole(seasons) == One

\* weight = 1.0 / len(seasons)
SeasonWeight(seasons) == Frac(1, Len(seasons))

\* what one item adds to weighted_counts[season]
ItemAdds(item, season) ==
    LET seasons == ItemSeasons(item)
    IN  FMul(Frac(Cardinality({ k \in 1..Len(seasons) : seasons[k] = season }), 1),
             SeasonWeight(seasons))

weighted_counts(items) ==
    [season \in Range(FourSeasons) |->
        FSum([k \in 1..Len(items) |-> ItemAdds(items[k], season)])]

\* the shares before rounding
percentages(items) ==
    LET counts == weighted_counts(items)
        total_weight == FSum([k \in 1..4 |-> counts[FourSeasons[k]]])
    IN  [season \in Range(FourSeasons) |->
            IF FLeq(total_weight, Zero) THEN Frac(25, 100)
            ELSE Frac(counts[season].n * total_weight.d, counts[season].d * total_weight.n)]

\* the records the call can return; the four shares are in thousandths, as
\* round(x, 3) leaves them
calculate_seasonal_distribution(items) ==
    IF items = <<>>
    THEN {[spring_percentage |-> 250, summer_percentage |-> 250,
           fall_percentage |-> 250, winter_percentage |-> 250,
           distribution_description |-> "No items to analyze"]}
    ELSE [spring_percentage : Round3(percentages(items)["spring"]),
          summer_percentage : Round3(percentages(items)["summer"]),
          fall_percentage : Round3(percentages(items)["fall"]),
          winter_percentage : Round3(percentages(items)["winter"]),
          distribution_description : {""}]

(***************************************************************************)
(* The scoring functions applied to every wardrobe of up to MaxWardrobe    *)
(* items                                                                   *)
(***************************************************************************)
MaxWardrobe == 3

ScoringFunctions == {"calculate_versatility_score", "calculate_cohesion_score",
                     "calculate_completeness_score", "calculate_seasonal_distribution"}

NotScored == [score |-> Zero, reason |-> "not returned"]

InitScoring ==
    /\ \E name \in ScoringFunctions :
       \E items \in SeqsUpTo(ScoringItems, MaxWardrobe) :
         fn = [name |-> name, pc |-> "called", items |-> items, result |-> NotScored]
    /\ pc = "none"
    /\ req = NoRequest
    /\ requirements = NoRequirements
    /\ closet_summary = <<>>
    /\ lane = [i \in Lanes |-> IdleLane]
    /\ valid_outfits = <<>>
    /\ response = NoResponse
    /\ shopping = ShopNotCalled
    /\ stub = "none"

VersatilityReturns ==
    /\ fn.name = "calculate_versatility_score"
    /\ fn.pc = "called"
    /\ fn' = [fn EXCEPT !.pc = "returned", !.result = calculate_versatility_score(fn.items)]
    /\ UNCHANGED <<pc, req, requirements, closet_summary, lane, valid_outfits,
                   response, shopping, stub>>

CohesionReturns ==
    /\ fn.name = "calculate_cohesion_score"
    /\ fn.pc = "called"
    /\ fn' = [fn EXCEPT !.pc = "returned", !.result = calculate_cohesion_score(fn.items)]
    /\ UNCHANGED <<pc, req, requirements, closet_summary, lane, valid_outfits,
                   response, shopping, stub>>

CompletenessReturns ==
    /\ fn.name = "calculate_completeness_score"
    /\ fn.pc = "called"
    /\ fn' = [fn EXCEPT !.pc = "returned", !.result = calculate_completeness_score(fn.items)]
    /\ UNCHANGED <<pc, req, requirements, closet_summary, lane, valid_outfits,
                   response, shopping, stub>>

SeasonalReturns ==
    /\ fn.name = "calculate_seasonal_distribution"
    /\ fn.pc = "called"
    /\ \E result \in calculate_seasonal_distribution(fn.items) :
         fn' = [fn EXCEPT !.pc = "returned", !.result = result]
    /\ UNCHANGED <<pc, req, requirements, closet_summary, lane, valid_outfits,
                   response, shopping, stub>>

NextScoring ==
    \/ VersatilityReturns
    \/ CohesionReturns
    \/ CompletenessReturns
    \/ SeasonalReturns

SpecScoring == InitScoring /\ [][NextScoring]_vars

(***************************************************************************)
(* Claims about the wardrobe scores                                        *)
(***************************************************************************)
ScoreFunctions == ScoringFunctions \ {"calculate_seasonal_distribution"}

ScoreReturned == fn.name \in ScoreFunctions /\ fn.pc = "returned"

\* C19: each of the versatility, cohesion and completeness scores of a
\* non-empty wardrobe lies in [0,1], whatever its tags; for the empty
\* wardrobe each is exactly 0 and comes with the reason "No items to
\* analyze".
C19_ScoresInUnitInterval ==
    ScoreReturned =>
        IF fn.items = <<>>
        THEN fn.result.score = Zero /\ fn.result.reason = "No items to analyze"
        ELSE FLeq(Zero, fn.result.score) /\ FLeq(fn.result.score, One)

\* C19 witness: the completeness of a wardrobe whose season tags lie outside
\* the four seasons and whose weighted sum exceeds 1 is returned as 1.
C19_Witness ==
    /\ fn.name = "calculate_completeness_score"
    /\ fn.pc = "returned"
    /\ fn.items = <<ScoreS1, ScoreS2>>
    /\ ~FLeq(CompletenessRaw(fn.items), One)
    /\ fn.result.score = One

\* C19 witness for the empty wardrobe
C19_EmptyWitness ==
    /\ ScoreReturned
    /\ fn.items = <<>>
    /\ fn.result = NoItemsResult

(***************************************************************************)
(* Claims about the seasonal distribution                                  *)
(***************************************************************************)
SeasonalReturned == fn.name = "calculate_seasonal_distribution" /\ fn.pc = "returned"

LowerTags(item) == [k \in 1..Len(safe_get_list(item, "season")) |-> Lower(safe_get_list(item, "season")[k])]

\* the recognised tags of an item, repeats kept
Listed(item) ==
    LET IsSeason(t) == t \in Range(FourSeasons)
    IN  SelectSeq(LowerTags(item), IsSeason)

EverySeason(item) == Listed(item) = <<>> \/ "all-season" \in Range(LowerTags(item))

\* the weight the claim gives an item for a season: 1/4 when the item has no
\* recognised tag or is tagged all-season, otherwise 1/k per listing of the
\* season among the k recognised tags
ClaimedWeight(item, season) ==
    IF EverySeason(item) THEN Frac(1, 4)
    ELSE Frac(Cardinality({ k \in 1..Len(Listed(item)) : Listed(item)[k] = season }),
              Len(Listed(item)))

ShareSum ==
    fn.result.spring_percentage + fn.result.summer_percentage
    + fn.result.fall_percentage + fn.result.winter_percentage

\* C20: every item adds the claimed weight to each season, a total of
\* exactly 1 per item, and the four returned shares sum to 1.0 within the
\* rounding of four values to three decimals (2 thousandths), for every
\* wardrobe, the empty one included.
C20_SharesSumToOne ==
    SeasonalReturned =>
        /\ \A k \in 1..Len(fn.items) :
              /\ \A season \in Range(FourSeasons) :
                    ItemAdds(fn.items[k], season) = ClaimedWeight(fn.items[k], season)
              /\ FSum([j \in 1..4 |-> ItemAdds(fn.items[k], FourSeasons[j])]) = One
        /\ ShareSum \in 998..1002

\* C20 witness: a wardrobe of an item with a repeated tag and two items with
\* no tag, whose rounded shares sum to 1.001
C20_Witness ==
    /\ SeasonalReturned
    /\ fn.items = <<ScoreS4, ScoreS3, ScoreS3>>
    /\ fn.result.summer_percentage = 389
    /\ ShareSum = 1001

(***************************************************************************)
(* find_best_pairings_with_ai: one bucket of pairable items, ranked        *)
(***************************************************************************)
\* the bucket size up to which no ranker is called, and the number of items
\* the fallback keeps
TopN == 3

RankedPairableItem(item, rank, styling_note) ==
    [item |-> item, rank |-> rank, styling_note |-> styling_note]

simple_rank_items(items, max_items) ==
    [k \in 1..Min(Len(items), max_items) |-> RankedPairableItem(items[k], k, "")]

\* what the chat completion call can do: raise, time out, answer without
\* content, answer with text that is not the expected JSON (or whose
\* entries do not make a RankedPairableItem), answer for another category,
\* or answer with a list of entries for the bucket's category
RankRaise == [kind |-> "raise", entries |-> <<>>]
RankTimeout == [kind |-> "timeout", entries |-> <<>>]
RankEmpty == [kind |-> "empty", entries |-> <<>>]
RankMalformed == [kind |-> "malformed", entries |-> <<>>]
RankOtherCategory == [kind |-> "other_category", entries |-> <<>>]
RankEntries(entries) == [kind |-> "rankings", entries |-> entries]
NotRanked == [kind |-> "not_called", entries |-> <<>>]

\* the bucket rank_items_with_ai returns for the category
rank_items_with_ai(items, answer, top_n) ==
    IF answer.kind \in {"raise", "timeout", "empty", "malformed"}
    THEN simple_rank_items(items, top_n)
    ELSE IF answer.kind = "other_category" THEN <<>>
    ELSE LET InBucket(e) == e.item_id \in Range(items)
             usable == SelectSeq(answer.entries, InBucket)
         IN  [k \in 1..Len(usable) |->
                RankedPairableItem(usable[k].item_id, usable[k].rank, usable[k].styling_note)]

\* `if not ranked_items:` after the ranker
RankedOrFallback(items, ranked_items) ==
    IF ranked_items = <<>>
    THEN simple_rank_items(SubSeq(items, 1, TopN), TopN)
    ELSE ranked_items

(***************************************************************************)
(* Specification of the ranking of one bucket                              *)
(***************************************************************************)
MaxBucket == 4
MaxRanked == 4

BucketIds == <<"P1", "P2", "P3", "P4", "P5", "P6", "P7">>
Buckets == { SubSeq(BucketIds, 1, n) : n \in 1..MaxBucket }

RankingEntries(items) ==
    { [item_id |-> id, rank |-> 1, styling_note |-> "note"] : id \in Range(items) \cup {UnknownId} }
    \cup { [item_id |-> items[Len(items)], rank |-> 7, styling_note |-> "Great styling choice"] }

RankerAnswers(items) ==
    {RankRaise, RankTimeout, RankEmpty, RankMalformed, RankOtherCategory}
    \cup { RankEntries(entries) : entries \in SeqsUpTo(RankingEntries(items), MaxRanked) }

InitRanking ==
    /\ \E items \in Buckets :
         fn = [name |-> "find_best_pairings_with_ai", pc |-> "called", items |-> items,
               answer |-> NotRanked, ranker_calls |-> 0, result |-> <<>>]
    /\ pc = "none"
    /\ req = NoRequest
    /\ requirements = NoRequirements
    /\ closet_summary = <<>>
    /\ lane = [i \in Lanes |-> IdleLane]
    /\ valid_outfits = <<>>
    /\ response = NoResponse
    /\ shopping = ShopNotCalled
    /\ stub = "none"

\* len(items) <= 3: no ranker
SmallBucketReturns ==
    /\ fn.name = "find_best_pairings_with_ai"
    /\ fn.pc = "called"
    /\ Len(fn.items) <= TopN
    /\ fn' = [fn EXCEPT !.pc = "returned", !.result = simple_rank_items(fn.items, TopN)]
    /\ UNCHANGED <<pc, req, requirements, closet_summary, lane, valid_outfits,
                   response, shopping, stub>>

\* the await of rank_items_with_ai
RankerCalled ==
    /\ fn.name = "find_best_pairings_with_ai"
    /\ fn.pc = "called"
    /\ Len(fn.items) > TopN
    /\ \E answer \in RankerAnswers(fn.items) :
         fn' = [fn EXCEPT !.pc = "ranking", !.answer = answer, !.ranker_calls = @ + 1]
    /\ UNCHANGED <<pc, req, requirements, closet_summary, lane, valid_outfits,
                   response, shopping, stub>>

RankedBucketReturns ==
    /\ fn.name = "find_best_pairings_with_ai"
    /\ fn.pc = "ranking"
    /\ fn' = [fn EXCEPT !.pc = "returned",
                        !.result = RankedOrFallback(fn.items,
                                       rank_items_with_ai(fn.items, fn.answer, TopN))]
    /\ UNCHANGED <<pc, req, requirements, closet_summary, lane, valid_outfits,
                   response, shopping, stub>>

NextRanking ==
    \/ SmallBucketReturns
    \/ RankerCalled
    \/ RankedBucketReturns

SpecRanking == InitRanking /\ [][NextRanking]_vars

(***************************************************************************)
(* Claims about the ranking of a bucket                                    *)
(***************************************************************************)
RankingReturned == fn.name = "find_best_pairings_with_ai" /\ fn.pc = "returned"

\* the first n items in original order with ranks 1..n and empty notes
FirstInOrder(items, n) == [k \in 1..n |-> [item |-> items[k], rank |-> k, styling_note |-> ""]]

\* the ranker raised, timed out or named no item of the bucket
NoUsableItem ==
    \/ fn.answer.kind \in {"raise", "timeout", "empty", "malformed", "other_category"}
    \/ \A k \in 1..Len(fn.answer.entries) : fn.answer.entries[k].item_id \notin Range(fn.items)

\* C21: a bucket of at most 3 items is returned unchanged with ranks 1..n
\* and without a ranker call; a larger bucket goes to the ranker once and
\* comes back with at most 3 items; when the ranker raises, times out or
\* names no usable item the bucket is its first 3 items with ranks 1,2,3 and
\* empty notes.
C21_RankedBucket ==
    RankingReturned =>
        IF Len(fn.items) <= 3
        THEN fn.result = FirstInOrder(fn.items, Len(fn.items)) /\ fn.ranker_calls = 0
        ELSE /\ fn.ranker_calls = 1
             /\ Len(fn.result) <= 3
             /\ NoUsableItem => fn.result = FirstInOrder(fn.items, 3)

\* the part of C21 that holds: everything but the size of a ranked bucket
C21_FallbackOnly ==
    RankingReturned =>
        IF Len(fn.items) <= 3
        THEN fn.result = FirstInOrder(fn.items, Len(fn.items)) /\ fn.ranker_calls = 0
        ELSE /\ fn.ranker_calls = 1
             /\ NoUsableItem => fn.result = FirstInOrder(fn.items, 3)

(***************************************************************************)
(* group_pairable_by_category                                              *)
(***************************************************************************)
BucketNames == <<"headwear", "eyewear", "tops", "bottoms", "dresses", "outerwear",
                 "shoes", "accessories">>

headwear_subcategories == {"hat", "cap", "beanie", "headband", "headwear"}
eyewear_subcategories == {"sunglasses", "glasses", "eyewear"}
headwear_terms == {"hat", "cap", "beanie"}
eyewear_terms == {"sunglasses", "glasses"}

\* (value or '').lower()
LowerOrEmpty(v) == IF v = NULL THEN "" ELSE Lower(v)

\* the bucket the if/elif chain appends the item to; NULL when it appends
\* to none
BucketOf(item) ==
    LET category == LowerOrEmpty(item.category)
        subcategory == LowerOrEmpty(item.subcategory)
        name == LowerOrEmpty(item.name)
    IN  IF category = "accessory"
        THEN IF subcategory \in headwear_subcategories THEN "headwear"
             ELSE IF subcategory \in eyewear_subcategories THEN "eyewear"
             ELSE "accessories"
        ELSE IF category = "top" THEN "tops"
        ELSE IF category = "bottom" THEN "bottoms"
        ELSE IF category = "dress" THEN "dresses"
        ELSE IF category = "outerwear" THEN "outerwear"
        ELSE IF category = "shoes" THEN "shoes"
        ELSE IF category = "" \/ category = "other"
        THEN IF \E term \in headwear_terms : Contains(term, name) THEN "headwear"
             ELSE IF \E term \in eyewear_terms : Contains(term, name) THEN "eyewear"
             ELSE NULL
        ELSE NULL

\* the dict returned: the non-empty buckets, each in input order
group_pairable_by_category(pairable_items) ==
    LET grouped == [b \in Range(BucketNames) |->
                        LET Here(item) == BucketOf(item) = b
                        IN  SelectSeq(pairable_items, Here)]
    IN  [b \in { k \in Range(BucketNames) : grouped[k] # <<>> } |-> grouped[b]]

(***************************************************************************)
(* Specification of group_pairable_by_category on lists of wardrobe items  *)
(***************************************************************************)
GroupItems ==
    { [id |-> "g1", category |-> "accessory", subcategory |-> NULL, name |-> "Baseball Cap"],
      [id |-> "g2", category |-> "accessory", subcategory |-> "Hat", name |-> "fedora"],
      [id |-> "g3", category |-> "accessory", subcategory |-> "sunglasses", name |-> "aviators"],
      [id |-> "g4", category |-> "accessory", subcategory |-> "scarf", name |-> "silk scarf"],
      [id |-> "g5", category |-> "accessory", subcategory |-> "cap", name |-> "Aviator Glasses"],
      [id |-> "g6", category |-> "top", subcategory |-> NULL, name |-> NULL],
      [id |-> "g7", category |-> "bottom", subcategory |-> NULL, name |-> "chinos"],
      [id |-> "g8", category |-> "shoes", subcategory |-> "sneakers", name |-> "runners"],
      [id |-> "g9", category |-> NULL, subcategory |-> NULL, name |-> "Red Hat"],
      [id |-> "g10", category |-> "other", subcategory |-> NULL, name |-> "plain"] }

InitGroup ==
    /\ \E items \in SeqsUpTo(GroupItems, MaxLen) :
         fn = [name |-> "group_pairable_by_category", pc |-> "called", items |-> items,
               result |-> <<>>]
    /\ pc = "none"
    /\ req = NoRequest
    /\ requirements = NoRequirements
    /\ closet_summary = <<>>
    /\ lane = [i \in Lanes |-> IdleLane]
    /\ valid_outfits = <<>>
    /\ response = NoResponse
    /\ shopping = ShopNotCalled
    /\ stub = "none"

GroupReturns ==
    /\ fn.name = "group_pairable_by_category"
    /\ fn.pc = "called"
    /\ fn' = [fn EXCEPT !.pc = "returned", !.result = group_pairable_by_category(fn.items)]
    /\ UNCHANGED <<pc, req, requirements, closet_summary, lane, valid_outfits,
                   response, shopping, stub>>

NextGroup == GroupReturns

SpecGroup == InitGroup /\ [][NextGroup]_vars

(***************************************************************************)
(* Claims about the buckets                                                *)
(***************************************************************************)
GroupReturned == fn.name = "group_pairable_by_category" /\ fn.pc = "returned"

\* the categories an item found pairable by can_pair_together can have
Pairable(item) == item.category \in DOMAIN valid_pairs

BucketIn(result, b) == IF b \in DOMAIN result THEN result[b] ELSE <<>>

MatchesHeadwear(item) ==
    \/ LowerOrEmpty(item.subcategory) \in headwear_subcategories
    \/ \E term \in headwear_terms : Contains(term, LowerOrEmpty(item.name))

MatchesEyewear(item) ==
    \/ LowerOrEmpty(item.subcategory) \in eyewear_subcategories
    \/ \E term \in eyewear_terms : Contains(term, LowerOrEmpty(item.name))

\* the bucket the claim gives a pairable item
ClaimedBucket(item) ==
    IF item.category = "accessory"
    THEN IF MatchesHeadwear(item) THEN "headwear"
         ELSE IF MatchesEyewear(item) THEN "eyewear"
         ELSE "accessories"
    ELSE CASE item.category = "top" -> "tops"
           [] item.category = "bottom" -> "bottoms"
           [] item.category = "dress" -> "dresses"
           [] OTHER -> item.category

\* C22: every pairable item is in exactly one bucket, each bucket keeps
\* the input order, and an accessory goes to headwear or eyewear when its
\* subcategory or its name matches the keywords, to accessories otherwise.
C22_Bucketed ==
    (GroupReturned /\ \A k \in 1..Len(fn.items) : Pairable(fn.items[k])) =>
        \A b \in Range(BucketNames) :
            LET Claimed(item) == ClaimedBucket(item) = b
            IN  BucketIn(fn.result, b) = SelectSeq(fn.items, Claimed)

\* the part of C22 that holds: one bucket per pairable item, in input order
C22_OneBucketInOrder ==
    (GroupReturned /\ \A k \in 1..Len(fn.items) : Pairable(fn.items[k])) =>
        /\ \A k \in 1..Len(fn.items) : BucketOf(fn.items[k]) # NULL
        /\ \A b \in Range(BucketNames) :
              LET Here(item) == BucketOf(item) = b
              IN  BucketIn(fn.result, b) = SelectSeq(fn.items, Here)

(***************************************************************************)
(* The in-memory cache: get_cached_result and set_cached_result            *)
(***************************************************************************)
CACHE_TTL == 3600

CacheKeys == {"k1", "k2"}
CacheValues == {"v1", "v2"}

\* seconds by which time.time() moves between two calls
ClockSteps == {1, 3599}
MaxTicks == 3

\* time.time() - timestamp <= CACHE_TTL
Fresh_Inclusive(timestamp, now) == now - timestamp <= CACHE_TTL

\* time.time() - timestamp < CACHE_TTL
Fresh(timestamp, now) == now - timestamp < CACHE_TTL

\* del cache_dict[cache_key]
Without(cache_dict, cache_key) == [k \in DOMAIN cache_dict \ {cache_key} |-> cache_dict[k]]

\* cache_dict[cache_key] = (result, time.time())
With(cache_dict, cache_key, entry) ==
    [k \in DOMAIN cache_dict \cup {cache_key} |-> IF k = cache_key THEN entry ELSE cache_dict[k]]

\* the value get_cached_result returns; NULL is None, the miss
get_cached_result(cache_key, cache_dict, now) ==
    IF cache_key \in DOMAIN cache_dict /\ Fresh(cache_dict[cache_key].timestamp, now)
    THEN cache_dict[cache_key].result
    ELSE NULL

\* the cache get_cached_result leaves behind
AfterGet(cache_key, cache_dict, now) ==
    IF cache_key \in DOMAIN cache_dict /\ ~Fresh(cache_dict[cache_key].timestamp, now)
    THEN Without(cache_dict, cache_key)
    ELSE cache_dict

EmptyCache == [k \in {} |-> NULL]

\* `sets` records the latest set of each key and `last` the latest call;
\* neither is read by the two functions
InitCache ==
    /\ fn = [name |-> "cache", cache_dict |-> EmptyCache, now |-> 0, ticks |-> 0,
             sets |-> EmptyCache,
             last |-> [op |-> "none", key |-> NULL, result |-> NULL, time |-> 0]]
    /\ pc = "none"
    /\ req = NoRequest
    /\ requirements = NoRequirements
    /\ closet_summary = <<>>
    /\ lane = [i \in Lanes |-> IdleLane]
    /\ valid_outfits = <<>>
    /\ response = NoResponse
    /\ shopping = ShopNotCalled
    /\ stub = "none"

SetCached ==
    /\ fn.name = "cache"
    /\ \E cache_key \in CacheKeys : \E result \in CacheValues :
         LET entry == [result |-> result, timestamp |-> fn.now]
         IN  fn' = [fn EXCEPT !.cache_dict = With(@, cache_key, entry),
                              !.sets = With(@, cache_key, entry),
                              !.last = [op |-> "set", key |-> cache_key, result |-> result,
                                        time |-> fn.now]]
    /\ UNCHANGED <<pc, req, requirements, closet_summary, lane, valid_outfits,
                   response, shopping, stub>>

GetCached ==
    /\ fn.name = "cache"
    /\ \E cache_key \in CacheKeys :
         fn' = [fn EXCEPT !.cache_dict = AfterGet(cache_key, @, fn.now),
                          !.last = [op |-> "get", key |-> cache_key,
                                    result |-> get_cached_result(cache_key, fn.cache_dict, fn.now),
                                    time |-> fn.now]]
    /\ UNCHANGED <<pc, req, requirements, closet_summary, lane, valid_outfits,
                   response, shopping, stub>>

ClockAdvances ==
    /\ fn.name = "cache"
    /\ fn.ticks < MaxTicks
    /\ \E step \in ClockSteps :
         fn' = [fn EXCEPT !.now = @ + step, !.ticks = @ + 1]
    /\ UNCHANGED <<pc, req, requirements, closet_summary, lane, valid_outfits,
                   response, shopping, stub>>

NextCache ==
    \/ SetCached
    \/ GetCached
    \/ ClockAdvances

SpecCache == InitCache /\ [][NextCache]_vars

(***************************************************************************)
(* Claims about the cache                                                  *)
(***************************************************************************)
GotValue == fn.name = "cache" /\ fn.last.op = "get" /\ fn.last.result # NULL
GotMiss == fn.name = "cache" /\ fn.last.op = "get" /\ fn.last.result = NULL

\* C23: a get returns the value of the latest set of its key, and only
\* when less than CACHE_TTL seconds passed since that set, or a miss; after a
\* miss the key is no longer in the cache, so an expired entry found by the
\* get has been removed.
C23_FreshOrMiss ==
    /\ GotValue =>
          /\ fn.last.key \in DOMAIN fn.sets
          /\ fn.last.result = fn.sets[fn.last.key].result
          /\ fn.last.time - fn.sets[fn.last.key].timestamp < 3600
    /\ GotMiss => fn.last.key \notin DOMAIN fn.cache_dict

\* C23 witness: a value returned one second before it expires, with the
\* other key already removed by a get that found it expired
C23_Witness ==
    /\ GotValue
    /\ fn.last.time - fn.sets[fn.last.key].timestamp = 3599
    /\ \E k \in DOMAIN fn.sets : k \notin DOMAIN fn.cache_dict

(***************************************************************************)
(* Specification of the lanes' views of the pool: generate_outfit from the *)
(* creation of the three lanes, each lane up to the shuffle that opens an  *)
(* attempt                                                                 *)
(***************************************************************************)
MaxPool == 6

Pools == { SubSeq(BucketIds, 1, n) : n \in MinPool..MaxPool }

\* three of the orders random.shuffle can leave a list in
SomeShuffles(s) ==
    { s, [k \in 1..Len(s) |-> s[Len(s) + 1 - k]], SubSeq(s, 2, Len(s)) \o SubSeq(s, 1, 1) }

InitViews ==
    /\ closet_summary \in Pools
    /\ lane = [i \in Lanes |-> IdleLane]
    /\ pc = "lanes"
    /\ req = NoRequest
    /\ requirements = StandardRequirements
    /\ valid_outfits = <<>>
    /\ response = NoResponse
    /\ shopping = ShopNotCalled
    /\ stub = "none"
    /\ fn = NoCall

\* generate_single_outfit_async up to its call of the lane
LaneRotates(i) ==
    /\ lane[i].pc = "idle"
    /\ lane' = [lane EXCEPT ![i] = [@ EXCEPT !.pc = "rotated",
                                            !.closet_summary = Rotated(closet_summary, i)]]
    /\ UNCHANGED <<pc, req, requirements, closet_summary, valid_outfits, response,
                   shopping, stub, fn>>

\* random.shuffle(closet_summary) at the entry of an attempt of the lane
LaneShuffles(i) ==
    /\ lane[i].pc \in {"rotated", "generator"}
    /\ lane[i].attempt_num < DuplicateCap
    /\ \E view \in SomeShuffles(lane[i].closet_summary) :
         lane' = [lane EXCEPT ![i] = [@ EXCEPT !.pc = "generator",
                                              !.attempt_num = @ + 1,
                                              !.closet_summary = view]]
    /\ UNCHANGED <<pc, req, requirements, closet_summary, valid_outfits, response,
                   shopping, stub, fn>>

NextViews == \E i \in Lanes : LaneRotates(i) \/ LaneShuffles(i)

SpecViews == InitViews /\ [][NextViews]_vars

(***************************************************************************)
(* Claims about the lanes' views                                           *)
(***************************************************************************)
RotateLeft(s, r) == [k \in 1..Len(s) |-> s[((k - 1 + r) % Len(s)) + 1]]

IsPermutationOf(view, pool) ==
    /\ Len(view) = Len(pool)
    /\ \A x \in Range(pool) :
          Cardinality({ k \in 1..Len(view) : view[k] = x })
          = Cardinality({ k \in 1..Len(pool) : pool[k] = x })

\* a step leaves the shared pool alone and changes the view of one lane at most
PrivateViews ==
    /\ closet_summary' = closet_summary
    /\ \A i \in Lanes : \A j \in Lanes :
          (i # j /\ lane'[i] # lane[i]) => lane'[j] = lane[j]

PermutedViews ==
    \A i \in Lanes :
        lane[i].pc # "idle" => IsPermutationOf(lane[i].closet_summary, closet_summary)

\* C24 as stated: the view a lane starts from is the pool rotated left by
\* i * (|pool| div 3) for every pool of at least 2 items, no step changes
\* the shared pool or the view of a second lane, and every view is a
\* permutation of the pool.
C24_RotatedViews ==
    /\ [](\A i \in Lanes :
            lane[i].pc = "rotated" =>
                lane[i].closet_summary
                = RotateLeft(closet_summary, i * (Len(closet_summary) \div 3)))
    /\ []PermutedViews
    /\ [][PrivateViews]_vars

\* C24 amended: the same for every pool of at least 3 items; a pool of 2
\* items is rotated left by i positions.
C24_RotatedViewsFromThree ==
    /\ [](\A i \in Lanes :
            lane[i].pc = "rotated" =>
                lane[i].closet_summary
                = RotateLeft(closet_summary,
                             IF Len(closet_summary) >= 3
                             THEN i * (Len(closet_summary) \div 3) ELSE i))
    /\ []PermutedViews
    /\ [][PrivateViews]_vars

\* C24 witness: on a pool of six items lane 1 has just been given the pool
\* rotated by two positions while lane 2 holds a shuffled view and lane 0
\* has not started
C24_Witness ==
    /\ closet_summary = <<"P1", "P2", "P3", "P4", "P5", "P6">>
    /\ lane[1].pc = "rotated"
    /\ lane[1].closet_summary = <<"P3", "P4", "P5", "P6", "P1", "P2">>
    /\ lane[2].pc = "generator"
    /\ lane[2].closet_summary # Rotated(closet_summary, 2)
    /\ lane[0].pc = "idle"

(***************************************************************************)
(* Claims about the merged list of generate_outfit                         *)
(***************************************************************************)
\* the lanes that returned a proposal, in the order the lanes were submitted
SubmissionOrder ==
    LET DidReturn(i) == lane[i].pc = "returned"
    IN  SelectSeq(<<0, 1, 2>>, DidReturn)

LanesOf(outfits) == [k \in 1..Len(outfits) |-> outfits[k].lane]

\* C25: the merged list holds the proposals of the lanes that returned, lane
\* 0 before lane 1 before lane 2, and nothing of a failed lane, whatever the
\* order the lanes finished in.
C25_SubmissionOrder ==
    /\ pc = "shopping" => LanesOf(valid_outfits) = SubmissionOrder
    /\ (pc = "done" /\ response.status = 200) => LanesOf(response.outfits) = SubmissionOrder

\* C25 witness: lane 0 went through three attempts, lane 2 returned from its
\* first and lane 1 failed; the answer lists lane 0 and then lane 2
C25_Witness ==
    /\ pc = "done"
    /\ LanesOf(response.outfits) = <<0, 2>>
    /\ lane[1].pc = "raised"
    /\ lane[0].attempt_num = 3
    /\ lane[2].attempt_num = 1

(***************************************************************************)
(* Claims about the feedback a lane hands to its next attempt              *)
(***************************************************************************)
\* previous_feedback is one message: it carries an earlier message only when
\* it is that message
Carries(feedback, earlier) == earlier = NoFeedback \/ feedback = earlier

\* C26: the feedback a lane passes to the generator at attempt n carries the
\* feedback of every earlier rejected attempt: when an attempt that was
\* itself given feedback is rejected, the feedback of the next attempt
\* still carries it.
C26_AccumulatedFeedback ==
    [][\A i \in DOMAIN lane :
         (lane[i].pc = "generator" /\ lane'[i].pc = "generator"
          /\ lane'[i].attempt_num = lane[i].attempt_num + 1)
            => Carries(lane'[i].previous_feedback, lane[i].previous_feedback)]_vars

(***************************************************************************)
(* Claims about proposals returned against the validator's verdict         *)
(***************************************************************************)
\* the validator's last verdict on the proposal the lane returned was invalid
ReturnedInvalid(i) ==
    /\ lane[i].pc = "returned"
    /\ lane[i].validation_result.kind = "dict"
    /\ ~ParseValidation(lane[i].validation_result).is_valid

ReturnedAccepted(i) ==
    /\ lane[i].pc = "returned"
    /\ lane[i].validation_result.kind = "dict"
    /\ ParseValidation(lane[i].validation_result).is_valid

\* the OutfitSuggestion the caller receives from the lane: the generator's
\* object with the item ids the lane left in it
Received(i) == [lane[i].result EXCEPT !.itemIds = lane[i].outfit]

\* C27: a proposal returned although the validator's last verdict on it was
\* invalid is marked in the result and an accepted one is not, so the
\* object a lane returns after an invalid verdict always differs from the
\* object a lane returns after the validator accepted it.
C27_DegradedMarked ==
    \A i \in DOMAIN lane : \A j \in DOMAIN lane :
        (ReturnedInvalid(i) /\ ReturnedAccepted(j)) => Received(i) # Received(j)

(***************************************************************************)
(* Specification of one lane with its calls counted.  fn is history: the   *)
(* calls to the generator and to the validator the lane has made so far    *)
(* (the one in flight included), whether the first proposal was rejected   *)
(* for duplicates, and the retries made on the validator's feedback.       *)
(***************************************************************************)
InitCalls ==
    /\ closet_summary = ClosetABC
    /\ lane \in [{0} -> EnterAttempt(IdleLane, ClosetABC, 1, NoFeedback)]
    /\ stub = "counted"
    /\ fn = [name |-> "calls", generator |-> 1, validator |-> 0,
             first_duplicate |-> FALSE, validator_retries |-> 0]
    /\ pc = "none"
    /\ req = NoRequest
    /\ requirements = StandardRequirements
    /\ valid_outfits = <<>>
    /\ response = NoResponse
    /\ shopping = ShopNotCalled

\* the generator's answer comes back to the lane
GeneratorCallReturns ==
    /\ lane[0].pc = "generator"
    /\ \E out \in Collaborators[stub].generator :
         \E f \in AfterGenerator(lane[0], out) :
            /\ lane' = [lane EXCEPT ![0] = f]
            /\ fn' = [fn EXCEPT
                         !.generator = IF f.pc = "generator" THEN @ + 1 ELSE @,
                         !.validator = IF f.pc = "validator" THEN @ + 1 ELSE @,
                         !.first_duplicate =
                             @ \/ (lane[0].attempt_num = 1 /\ f.pc = "generator")]
    /\ UNCHANGED <<pc, req, requirements, closet_summary, valid_outfits, response, shopping, stub>>

\* the validator's answer comes back to the lane
ValidatorCallReturns ==
    /\ lane[0].pc = "validator"
    /\ \E out \in Collaborators[stub].validator :
         \E f \in AfterValidator(lane[0], out) :
            /\ lane' = [lane EXCEPT ![0] = f]
            /\ fn' = [fn EXCEPT
                         !.generator = IF f.pc = "generator" THEN @ + 1 ELSE @,
                         !.validator_retries = IF f.pc = "generator" THEN @ + 1 ELSE @]
    /\ UNCHANGED <<pc, req, requirements, closet_summary, valid_outfits, response, shopping, stub>>

NextCalls == GeneratorCallReturns \/ ValidatorCallReturns

SpecCalls == InitCalls /\ [][NextCalls]_vars

\* every call the lane awaits returns (an answer or an exception)
SpecCallsFair == SpecCalls /\ WF_vars(NextCalls)

(***************************************************************************)
(* Claims about the lane's attempt counter                                 *)
(***************************************************************************)
LaneTerminated == lane[0].pc \in {"returned", "raised"}

\* the validator reported the lane's proposal invalid at attempt 2 or 3
InvalidAfterFirst ==
    /\ lane[0].pc = "validator"
    /\ lane[0].attempt_num \in {2, 3}
    /\ lane'[0] # lane[0]
    /\ ReportsInvalid(lane'[0].validation_result)

\* C28: duplicate retries and validator retries share one attempt counter:
\* when every call returns, a lane makes at most 3 generator calls and at
\* most 2 validator calls and then terminates, returned or failed; a lane
\* whose first proposal was rejected for duplicates never retries on
\* validator feedback; a proposal the validator reports invalid at attempt
\* 2 or 3 is returned as it is.
C28_SharedCounter ==
    /\ [](fn.generator <= 3 /\ fn.validator <= 2)
    /\ <>LaneTerminated
    /\ [](fn.first_duplicate => fn.validator_retries = 0)
    /\ [][InvalidAfterFirst =>
            /\ lane'[0].pc = "returned"
            /\ lane'[0].outfit = lane[0].outfit
            /\ lane'[0].attempt_num = lane[0].attempt_num]_vars

\* C28 witness: a lane that returned its third proposal, reported invalid,
\* after three generator calls and two validator calls.
C28_Witness ==
    /\ lane[0].pc = "returned"
    /\ lane[0].attempt_num = 3
    /\ ReportsInvalid(lane[0].validation_result)
    /\ fn.generator = 3
    /\ fn.validator = 2
    /\ fn.validator_retries = 1

\* a lane whose first proposal was rejected for duplicates and whose later
\* proposal the validator reported invalid
C28_DuplicateFirstWitness ==
    /\ lane[0].pc = "returned"
    /\ fn.first_duplicate
    /\ ReportsInvalid(lane[0].validation_result)

(***************************************************************************)
(* Claims about the sanitizer inside a lane                                *)
(***************************************************************************)
\* s is t with some elements left out, the rest in t's order
RECURSIVE IsSubsequence(_, _)
IsSubsequence(s, t) ==
    IF s = <<>> THEN TRUE
    ELSE IF t = <<>> THEN FALSE
    ELSE IF Head(s) = Head(t) THEN IsSubsequence(Tail(s), Tail(t))
    ELSE IsSubsequence(s, Tail(t))

\* the lane has rewritten the proposal's itemIds with the sanitizer
SanitizerApplied(i) == lane[i].pc \in {"validator", "returned"} /\ Sanitized(i)

\* the id resolves to a pool item of a category the sanitizer keeps whole
KeptWhole(id) ==
    /\ HasId(closet_summary, id)
    /\ Lower(Lookup(closet_summary, id).category) \notin {"shoes", "bottom", "dress"}

\* C29: when a lane sanitizes a proposal whose ids include ids absent from
\* the pool or repeated ids, each id is kept or dropped by the category of
\* the item that id resolves to: the sanitized list is an order-preserving
\* subsequence of the proposal's ids, it loses no id of a category kept
\* whole, and it holds at most one id resolving to shoes and at most one
\* resolving to bottom.
C29_SanitizedByOwnItem ==
    \A i \in DOMAIN lane :
        SanitizerApplied(i) =>
            LET ids == lane[i].result.itemIds IN
            /\ IsSubsequence(lane[i].outfit, ids)
            /\ \A k \in 1..Len(ids) :
                  KeptWhole(ids[k]) => \E j \in 1..Len(lane[i].outfit) : lane[i].outfit[j] = ids[k]
            /\ CountWhere(Resolved(i), "shoes") <= 1
            /\ CountWhere(Resolved(i), "bottom") <= 1

\* with every id of the proposal resolving to a pool item, the same holds
C29_AlignedOnly ==
    \A i \in DOMAIN lane :
        (SanitizerApplied(i)
         /\ \A k \in 1..Len(lane[i].result.itemIds) :
                HasId(closet_summary, lane[i].result.itemIds[k])) =>
            LET ids == lane[i].result.itemIds IN
            /\ IsSubsequence(lane[i].outfit, ids)
            /\ \A k \in 1..Len(ids) :
                  KeptWhole(ids[k]) => \E j \in 1..Len(lane[i].outfit) : lane[i].outfit[j] = ids[k]
            /\ CountWhere(Resolved(i), "shoes") <= 1
            /\ CountWhere(Resolved(i), "bottom") <= 1

(***************************************************************************)
(* Claims about duplicate detection inside a lane                          *)
(***************************************************************************)
\* the generator has answered lane i with a proposal whose ids all resolve
\* to items of the pool the lane was shown
ResolvableProposal(i) ==
    /\ lane[i].pc = "generator"
    /\ lane'[i] # lane[i]
    /\ lane'[i].result.kind = "outfit"
    /\ lane'[i].result.itemIds # <<>>
    /\ \A k \in 1..Len(lane'[i].result.itemIds) :
          HasId(lane[i].closet_summary, lane'[i].result.itemIds[k])

\* C30: the duplicate check yields a verdict, flagged or not, for every
\* proposal whose ids resolve to pool items, also when an item's category or
\* subcategory is null: the lane retries or goes on to the validator, and
\* never fails with an error inside duplicate detection.
C30_DetectionVerdict ==
    [][\A i \in DOMAIN lane :
         ResolvableProposal(i) =>
            /\ lane'[i].pc \in {"generator", "validator"}
            /\ lane'[i].error # "AttributeError"]_vars

\* on the proposals that name no item with a null field, the same holds
C30_NoNullField ==
    [][\A i \in DOMAIN lane :
         (ResolvableProposal(i)
          /\ ~DetectRaises(get_item_details(lane'[i].result.itemIds, lane[i].closet_summary))) =>
            /\ lane'[i].pc \in {"generator", "validator"}
            /\ lane'[i].error # "AttributeError"]_vars

====
